---- MODULE Spec2Model ----
(***************************************************************************)
(* Suno Machine: the artist roster, the per-artist generation history and  *)
(* the song generation requests, as a state machine.                       *)
(*                                                                         *)
(* The repository holds three variants of the same application:            *)
(*   "cloud"  src/index.tsx          Firebase-backed, history, regenerate  *)
(*   "local"  src/unnamed/part_000   localStorage, history, import/export  *)
(*   "basic"  src/unnamed/part_001   localStorage, no history, import      *)
(* The variable `variant` is fixed by Init and selects the code modelled.  *)
(*                                                                         *)
(* JavaScript strings that the code trims or lower-cases (artist names and *)
(* styles) are sequences of one-character strings, so that trim() and      *)
(* toLowerCase() are computed.  Opaque texts (titles, lyrics, themes,      *)
(* messages) are TLA+ strings.                                             *)
(***************************************************************************)
EXTENDS Integers, Sequences, FiniteSets, TLC

VARIABLES
    variant,            \* which of the three source files runs
    now,                \* Date.now(), in milliseconds
    view,               \* App: useState('create')
    artists,            \* App: useState([]) - the roster, a sequence
    generationHistory,  \* App: useState({}) - key -> reference of an entry object
    heap,               \* the history entry objects (they are mutated in place)
    apiKey,             \* cloud: useState(null); local: the key behind `ai`
    editingArtist,      \* ManageArtistsView: useState(null)
    formName,           \* ManageArtistsView: useState("")
    formStyle,          \* ManageArtistsView: useState("")
    formError,          \* ManageArtistsView: useState("")
    selectedArtistId,   \* CreateSongView: useState("")
    songData,           \* CreateSongView: useState(null)
    isLoading,          \* CreateSongView: useState(false)
    isSuggesting,       \* CreateSongView: useState(false)
    isRegenerating,     \* CreateSongView: useState(null)
    creativity,         \* CreateSongView: useState(25)
    error,              \* CreateSongView: useState(null)
    isGenerating,       \* ManageArtistsView: useState(false)
    pending,            \* requests to the generative service not yet answered
    user,               \* cloud App: useState(null) - the uid of the signed-in user
    appReady,           \* cloud App: useState(false)
    dataLoading,        \* cloud App: useState(true), false once the effects of the mount ran
    accounts,           \* the authentication service: uid -> the account it holds
    docs,               \* Firestore, collection "users": uid -> the profile document
    writes,             \* setDoc calls the server has not applied yet, in order
    io,                 \* sign-in handlers and profile loads that are awaiting
    lastOp              \* the handler that ran last, its inputs and its alert

vars == <<variant, now, view, artists, generationHistory, heap, apiKey,
          editingArtist, formName, formStyle, formError,
          selectedArtistId, songData, isLoading, isSuggesting, isRegenerating,
          creativity, error, isGenerating, pending,
          user, appReady, dataLoading, accounts, docs, writes, io, lastOp>>

manageVars == <<editingArtist, formName, formStyle, formError, isGenerating>>
createVars == <<selectedArtistId, songData, isLoading, isSuggesting,
                isRegenerating, creativity, error>>
sessionVars == <<user, appReady, dataLoading, accounts, docs, io>>

----------------------------------------------------------------------------
(* Bounds of the model *)

MaxArtists == 2     \* roster length
MaxClock   == 2     \* Date.now() takes the values 1..MaxClock
FracSteps  == 2     \* distinct values of Date.now() + Math.random() per ms
MaxFile    == 2     \* records in an imported artist file
MaxObj     == 3     \* history entry objects alive at the same time
MaxHist    == 2     \* length of a titles, themes or lyrics list
MaxPending == 2     \* requests in flight
MaxWrites  == 2     \* setDoc calls not yet applied
MaxIo      == 2     \* sign-in handlers and profile loads awaiting

----------------------------------------------------------------------------
(* Strings as sequences of characters *)

NULL == "null"          \* null and undefined, where a text is expected
EMPTY == << >>          \* the empty string ""
UNDEF == "undefined"    \* a key an object does not have reads as undefined

isSpace(c) == c = " "

RECURSIVE trimStart(_)
trimStart(s) ==
    IF s = EMPTY THEN EMPTY
    ELSE IF isSpace(Head(s)) THEN trimStart(Tail(s)) ELSE s

RECURSIVE trimEnd(_)
trimEnd(s) ==
    IF s = EMPTY THEN EMPTY
    ELSE IF isSpace(s[Len(s)]) THEN trimEnd(SubSeq(s, 1, Len(s) - 1)) ELSE s

\* String.prototype.trim
trim(s) == trimEnd(trimStart(s))

lowerChar(c) ==
    CASE c = "A" -> "a"
      [] c = "B" -> "b"
      [] OTHER   -> c

\* String.prototype.toLowerCase
toLowerCase(s) == [i \in DOMAIN s |-> lowerChar(s[i])]

\* what the user can type into the name and the style field
NameInputs  == { EMPTY, <<" ">>, <<"A">>, <<" ", "a">>, <<"b">> }
StyleInputs == { EMPTY, <<"s">>, <<" ", "t">> }

----------------------------------------------------------------------------
(* Artist ids *)

\* Date.now(): an id on the grid of FracSteps values per millisecond
DateNow == now * FracSteps

\* Date.now() + Math.random(), r the random fraction in steps of 1/FracSteps
DateNowPlusRandom(r) == now * FracSteps + r

\* String(id), id.toString(), and a number used as a property key
String(id) == ToString(id)

Range(f) == { f[i] : i \in DOMAIN f }

ArtistIds == { a.id : a \in Range(artists) }

\* editingArtist === null
NoArtist == [id |-> 0, name |-> EMPTY, style |-> EMPTY]

\* songData === null
NoSong == [title |-> NULL, style |-> NULL, lyrics |-> NULL]

----------------------------------------------------------------------------
(* The generation history: an object whose values are entry objects.  The  *)
(* code copies the outer object ({...history}) and then pushes onto the    *)
(* arrays of the entry it finds there, so an entry is shared by every copy *)
(* that holds it: entries live in `heap` and a history maps keys to        *)
(* references.                                                             *)

Refs == 1..MaxObj

\* { titles: [], themes: [], lyrics: [] }
EmptyEntry == [titles |-> << >>, themes |-> << >>, lyrics |-> << >>]

\* the references a history object holds
RefsOf(h) == { h[k] : k \in DOMAIN h }

\* the references reachable from the application state gh and the closures pend
Reachable(gh, pend) == RefsOf(gh) \cup UNION { RefsOf(pend[i].history) : i \in DOMAIN pend }

\* a reference no one holds (the next object allocated)
FreeRefs(gh, pend) == Refs \ Reachable(gh, pend)
NewRef(gh, pend) == CHOOSE r \in FreeRefs(gh, pend) : \A q \in FreeRefs(gh, pend) : r <= q

\* garbage collection: an object no one holds is gone
Collect(hp, gh, pend) ==
    [r \in Refs |-> IF r \in Reachable(gh, pend) THEN hp[r] ELSE EmptyEntry]

\* the history as the values it holds: key -> entry
HistoryValue(gh, hp) == [k \in DOMAIN gh |-> hp[gh[k]]]

\* const newHistory = { ...h }; delete newHistory[k]
DeleteKey(h, k) == [j \in DOMAIN h \ {k} |-> h[j]]

\* newHistory[k] = v
SetKey(h, k, v) == [j \in DOMAIN h \cup {k} |-> IF j = k THEN v ELSE h[j]]

----------------------------------------------------------------------------
(* What the last handler did, for the properties to refer to: the handler, *)
(* its input, whether it went through, and the alert() or report it gave.  *)

Op(op, arg, result, alert, added, updated) ==
    [op |-> op, arg |-> arg, result |-> result, alert |-> alert,
     added |-> added, updated |-> updated]

\* App: the views are rendered once a key is there (local), once the session
\* is ready (cloud: appReady, a user, and no profile load going on), always (basic)
MainShown ==
    CASE variant = "local" -> apiKey # NULL
      [] variant = "cloud" -> appReady /\ user # NULL /\ ~dataLoading
      [] OTHER             -> TRUE

ManageShown == MainShown /\ view = "manage"
CreateShown == MainShown /\ view = "create"

----------------------------------------------------------------------------
(* cloud: the profile documents of Firestore and the setDoc calls on their  *)
(* way to the server, which applies them in the order they were made        *)

Uids == {"u1", "u2"}

\* the display names: the username of a sign-up form, the name of a Google
\* profile; NoName where none is set
Names == {"ann", "bob"}
NoName == ""

\* a document that does not exist, and the document a first sign-in creates:
\* { artists: [], generationHistory: {}, displayName, email, apiKey: "" }
NoDoc ==
    [exists |-> FALSE, artists |-> << >>, generationHistory |-> << >>,
     apiKey |-> "", email |-> FALSE, displayName |-> NoName]
NewProfile ==
    [exists |-> TRUE, artists |-> << >>, generationHistory |-> << >>,
     apiKey |-> "", email |-> TRUE, displayName |-> "ann"]

\* JSON.parse(JSON.stringify(data)): undefined in an array becomes null
cleanItem(x) == IF x = UNDEF THEN NULL ELSE x
cleanList(l) == [i \in DOMAIN l |-> cleanItem(l[i])]
cleanData(h) ==
    [k \in DOMAIN h |-> [titles |-> cleanList(h[k].titles),
                         themes |-> cleanList(h[k].themes),
                         lyrics |-> cleanList(h[k].lyrics)]]

\* the data of a setDoc call: the fields it names and their values
ArtistsData(a) ==
    [fields |-> {"artists"}, artists |-> a, generationHistory |-> << >>, apiKey |-> ""]
HistoryData(h) ==
    [fields |-> {"generationHistory"}, artists |-> << >>,
     generationHistory |-> cleanData(h), apiKey |-> ""]
KeyData(k) ==
    [fields |-> {"apiKey"}, artists |-> << >>, generationHistory |-> << >>, apiKey |-> k]
EmailData ==
    [fields |-> {"email"}, artists |-> << >>, generationHistory |-> << >>, apiKey |-> ""]
ProfileData(name) ==
    [fields |-> {"artists", "generationHistory", "apiKey", "displayName", "email"},
     artists |-> << >>, generationHistory |-> << >>, apiKey |-> "", displayName |-> name]

\* a setDoc call; wake: the handler that awaits it
setDoc(uid, data, merge, wake) == [uid |-> uid, data |-> data, merge |-> merge, wake |-> wake]

\* { merge: true } on a field that holds a map: the keys the data names are
\* written and the others are kept; an empty map replaces the field
mergeMap(old, new) ==
    IF DOMAIN new = {} THEN new
    ELSE [k \in DOMAIN old \cup DOMAIN new |-> IF k \in DOMAIN new THEN new[k] ELSE old[k]]

\* the document after the server applied a setDoc call
applied(doc, w) ==
    IF ~w.merge
    THEN [exists |-> TRUE, artists |-> w.data.artists,
          generationHistory |-> w.data.generationHistory,
          apiKey |-> w.data.apiKey, email |-> TRUE, displayName |-> w.data.displayName]
    ELSE [exists |-> TRUE,
          artists |-> IF "artists" \in w.data.fields THEN w.data.artists ELSE doc.artists,
          generationHistory |->
              IF "generationHistory" \in w.data.fields
              THEN mergeMap(doc.generationHistory, w.data.generationHistory)
              ELSE doc.generationHistory,
          apiKey |-> IF "apiKey" \in w.data.fields THEN w.data.apiKey ELSE doc.apiKey,
          email |-> doc.email \/ "email" \in w.data.fields,
          displayName |-> doc.displayName]

\* getDoc: the document as this client reads it, the server's with the calls
\* of the queue laid over it
RECURSIVE overlaid(_, _, _)
overlaid(doc, queue, uid) ==
    IF queue = << >> THEN doc
    ELSE overlaid(IF Head(queue).uid = uid THEN applied(doc, Head(queue)) ELSE doc,
                  Tail(queue), uid)

getDoc(uid) == overlaid(docs[uid], writes, uid)

\* App.updateUserData: if (user && db) setDoc(userDocRef, cleanData, { merge: true });
\* uid is the user of the render the caller was made in
updateUserData(queue, uid, data) ==
    IF variant = "cloud" /\ uid # NULL
    THEN Append(queue, setDoc(uid, data, TRUE, "none"))
    ELSE queue

\* the queue takes n more calls
canSave(n) == variant = "cloud" => Len(writes) + n <= MaxWrites

----------------------------------------------------------------------------
(* App: the setters handed to the views *)

\* cloud: updateArtists; local, basic: setArtists.  The write that
\* updateArtists, updateGenerationHistory and updateApiKey make through
\* updateUserData is queued by the handler that calls them.
updateArtists(newArtists) == artists' = newArtists

----------------------------------------------------------------------------
(* ManageArtistsView *)

\* useEffect(..., [editingArtist]): runs when editingArtist changes
editingEffect(newEditing) ==
    IF newEditing = editingArtist
    THEN UNCHANGED <<formName, formStyle, formError>>
    ELSE IF newEditing # NoArtist
         THEN /\ formName' = newEditing.name
              /\ formStyle' = newEditing.style
              /\ formError' = ""
         ELSE /\ formName' = EMPTY
              /\ formStyle' = EMPTY
              /\ formError' = ""

\* the name field's onChange
setFormName(v) ==
    /\ ManageShown
    /\ formName' = v
    /\ formError' = ""
    /\ lastOp' = Op("setFormName", v, "ok", "", 0, 0)
    /\ UNCHANGED <<variant, sessionVars, writes, now, view, artists, generationHistory, heap, apiKey,
                   editingArtist, formStyle, isGenerating, createVars, pending>>

\* the style field's onChange (cloud: it also clears the error)
setFormStyle(v) ==
    /\ ManageShown
    /\ formStyle' = v
    /\ formError' = IF variant = "cloud" THEN "" ELSE formError
    /\ lastOp' = Op("setFormStyle", v, "ok", "", 0, 0)
    /\ UNCHANGED <<variant, sessionVars, writes, now, view, artists, generationHistory, heap, apiKey,
                   editingArtist, formName, isGenerating, createVars, pending>>

\* a name check that compares the names as they are written
isDuplicateExact(trimmedName) ==
    \E i \in DOMAIN artists :
        /\ artists[i].name = trimmedName
        /\ (editingArtist = NoArtist \/ artists[i].id # editingArtist.id)

\* artists.some(artist => artist.name.toLowerCase() === trimmedName.toLowerCase()
\*                        && (!editingArtist || artist.id !== editingArtist.id))
isDuplicate(trimmedName) ==
    \E i \in DOMAIN artists :
        /\ toLowerCase(artists[i].name) = toLowerCase(trimmedName)
        /\ (editingArtist = NoArtist \/ artists[i].id # editingArtist.id)

\* artists.map(a => a.id === editingArtist.id ? {...a, name, style} : a)
renamed(trimmedName, trimmedStyle) ==
    [i \in DOMAIN artists |->
        IF artists[i].id = editingArtist.id
        THEN [artists[i] EXCEPT !.name = trimmedName, !.style = trimmedStyle]
        ELSE artists[i]]

\* [...artists, { id: Date.now(), name, style }]
created(trimmedName, trimmedStyle) ==
    Append(artists, [id |-> DateNow, name |-> trimmedName, style |-> trimmedStyle])

\* the Add Artist / Save Changes button
handleSave ==
    /\ ManageShown
    /\ LET trimmedName  == trim(formName)
           trimmedStyle == trim(formStyle)
       IN  IF trimmedName = EMPTY \/ trimmedStyle = EMPTY
           THEN /\ lastOp' = Op("handleSave", editingArtist, "ignored", "", 0, 0)
                /\ UNCHANGED <<artists, manageVars, writes>>
           ELSE IF isDuplicate(trimmedName)
           THEN /\ formError' = "duplicate"
                /\ lastOp' = Op("handleSave", editingArtist, "rejected", "", 0, 0)
                /\ UNCHANGED <<artists, editingArtist, formName, formStyle, isGenerating,
                               writes>>
           ELSE /\ editingArtist = NoArtist => Len(artists) < MaxArtists
                /\ canSave(1)
                /\ LET newArtists == IF editingArtist # NoArtist
                                     THEN renamed(trimmedName, trimmedStyle)
                                     ELSE created(trimmedName, trimmedStyle)
                   IN  /\ updateArtists(newArtists)
                       /\ writes' = updateUserData(writes, user, ArtistsData(newArtists))
                /\ editingArtist' = NoArtist
                /\ IF editingArtist # NoArtist
                   THEN editingEffect(NoArtist)
                   ELSE /\ formError' = IF variant = "cloud" THEN "" ELSE formError
                        /\ UNCHANGED <<formName, formStyle>>
                /\ UNCHANGED isGenerating
                /\ lastOp' = Op("handleSave", editingArtist, "accepted", "", 0, 0)
    /\ UNCHANGED <<variant, sessionVars, now, view, generationHistory, heap, apiKey,
                   createVars, pending>>

\* the Edit button of an artist of the list
editClick(i) ==
    /\ ManageShown
    /\ i \in DOMAIN artists
    /\ editingArtist' = artists[i]
    /\ editingEffect(artists[i])
    /\ lastOp' = Op("editClick", artists[i], "ok", "", 0, 0)
    /\ UNCHANGED <<variant, sessionVars, writes, now, view, artists, generationHistory, heap, apiKey,
                   isGenerating, createVars, pending>>

\* the Cancel button, shown while editing
cancelClick ==
    /\ ManageShown
    /\ editingArtist # NoArtist
    /\ editingArtist' = NoArtist
    /\ editingEffect(NoArtist)
    /\ lastOp' = Op("cancelClick", editingArtist, "ok", "", 0, 0)
    /\ UNCHANGED <<variant, sessionVars, writes, now, view, artists, generationHistory, heap, apiKey,
                   isGenerating, createVars, pending>>

\* artists.filter(a => a.id !== id)
withoutId(id) == SelectSeq(artists, LAMBDA a : a.id # id)

\* the Delete button of an artist of the list; confirmed: window.confirm's answer
handleDelete(i, confirmed) ==
    /\ ManageShown
    /\ i \in DOMAIN artists
    /\ LET id == artists[i].id
       IN  IF ~confirmed
           THEN /\ lastOp' = Op("handleDelete", artists[i], "declined", "", 0, 0)
                /\ UNCHANGED <<artists, generationHistory, heap, manageVars, writes>>
           ELSE /\ canSave(2)
                /\ updateArtists(withoutId(id))
                /\ IF variant = "basic"
                   THEN UNCHANGED <<generationHistory, heap, writes>>
                   ELSE LET newHistory == DeleteKey(generationHistory, String(id))
                        IN  /\ generationHistory' = newHistory
                            /\ heap' = Collect(heap, newHistory, pending)
                            /\ writes' = updateUserData(
                                   updateUserData(writes, user, ArtistsData(withoutId(id))),
                                   user, HistoryData(HistoryValue(newHistory, heap)))
                /\ IF editingArtist # NoArtist /\ editingArtist.id = id
                   THEN /\ editingArtist' = NoArtist
                        /\ editingEffect(NoArtist)
                        /\ UNCHANGED isGenerating
                   ELSE UNCHANGED manageVars
                /\ lastOp' = Op("handleDelete", artists[i], "confirmed", "", 0, 0)
    /\ UNCHANGED <<variant, sessionVars, now, view, apiKey, createVars, pending>>

----------------------------------------------------------------------------
(* Import of an artist file (local, basic): handleFileSelect                *)

\* a JSON field: a string, or anything else (a number, null, absent)
Str(v) == [type |-> "string", val |-> v]
NotString == [type |-> "other", val |-> EMPTY]

\* an element of the parsed array: an object with its name and style fields,
\* or something that has no fields (null, a number, a string)
JObject(n, s) == [kind |-> "object", name |-> n, style |-> s]
JOther == [kind |-> "other", name |-> NotString, style |-> NotString]

\* the elements an imported array is made of
ImportCandidates ==
    { JObject(Str(<<"A">>), Str(<<"s">>)),
      JObject(Str(<<" ", "a">>), Str(<<" ", "t">>)),
      JObject(Str(<<"b">>), Str(<<"s">>)),
      JObject(Str(<<" ">>), Str(<<"s">>)),
      JObject(Str(<<"A">>), NotString),
      JOther }

SeqsUpTo(S, n) == UNION { [1..k -> S] : k \in 0..n }

\* the content of the selected file: text that does not parse, a JSON value
\* that is no array, or an array
Unparseable == [kind |-> "unparseable", items |-> << >>]
NonArray(k) == [kind |-> k, items |-> << >>]
JArray(items) == [kind |-> "array", items |-> items]

ArtistFiles ==
    { Unparseable, NonArray("object"), NonArray("null"), NonArray("number") }
    \cup { JArray(items) : items \in SeqsUpTo(ImportCandidates, MaxFile) }

\* artist && typeof artist.name === 'string' && artist.name.trim() !== ''
\*        && typeof artist.style === 'string'
isValidArtist(c) ==
    /\ c.kind = "object"
    /\ c.name.type = "string"
    /\ trim(c.name.val) # EMPTY
    /\ c.style.type = "string"

\* importedArtists.filter(...).map(artist => ({...artist, name: artist.name.trim()}))
validArtistsOf(items) ==
    LET kept == SelectSeq(items, isValidArtist)
    IN  [i \in DOMAIN kept |-> [name |-> trim(kept[i].name.val), style |-> kept[i].style.val]]

\* A JavaScript Map: a sequence of <<key, value>> in insertion order
MapHas(m, k) == \E i \in DOMAIN m : m[i][1] = k
MapIndex(m, k) == CHOOSE i \in DOMAIN m : m[i][1] = k
MapGet(m, k) == m[MapIndex(m, k)][2]
MapAdd(m, k, v) == Append(m, <<k, v>>)

MapSet(m, k, v) ==
    IF MapHas(m, k) THEN [m EXCEPT ![MapIndex(m, k)] = <<k, v>>]
    ELSE Append(m, <<k, v>>)
\* Array.from(m.values())
MapValues(m) == [i \in DOMAIN m |-> m[i][2]]

\* new Map(prevArtists.map(a => [a.name.toLowerCase(), a]))
RECURSIVE MapOfArtists(_, _)
MapOfArtists(prev, m) ==
    IF prev = << >> THEN m
    ELSE MapOfArtists(Tail(prev), MapSet(m, toLowerCase(Head(prev).name), Head(prev)))

\* validArtists.forEach(importedArtist => ...): acc is the map and the two
\* counters; rnd holds the values of Math.random(), one for each artist added
RECURSIVE mergeEach(_, _, _)
mergeEach(valid, acc, rnd) ==
    IF valid = << >> THEN acc
    ELSE LET importedArtist == Head(valid)
             key == toLowerCase(importedArtist.name)
         IN  IF MapHas(acc.map, key)
             THEN LET existingArtist == MapGet(acc.map, key)
                  IN  IF existingArtist.style # importedArtist.style
                      THEN mergeEach(Tail(valid),
                               [acc EXCEPT !.map = MapSet(acc.map, key,
                                                [existingArtist EXCEPT !.style = importedArtist.style]),
                                           !.updated = acc.updated + 1],
                               rnd)
                      ELSE mergeEach(Tail(valid), acc, rnd)
             ELSE mergeEach(Tail(valid),
                      [acc EXCEPT !.map = MapSet(acc.map, key,
                                       [id |-> DateNowPlusRandom(rnd[acc.added + 1]),
                                        name |-> importedArtist.name,
                                        style |-> importedArtist.style]),
                                  !.added = acc.added + 1],
                      rnd)

\* the updater handed to setArtists: the new roster and the two counts
importMerge(prevArtists, valid, rnd) ==
    mergeEach(valid, [map |-> MapOfArtists(prevArtists, << >>), added |-> 0, updated |-> 0], rnd)

\* the number of artists the import adds: the new keys among the candidates
addedCount(prevArtists, valid) ==
    Cardinality({ toLowerCase(valid[i].name) : i \in DOMAIN valid }
                \ { toLowerCase(prevArtists[i].name) : i \in DOMAIN prevArtists })

\* Array.isArray(importedArtists), of what JSON.parse returned (text that does
\* not parse throws before, into the same catch block)
isArrayOrObject(file) == file.kind \in {"array", "object"}

isArray(file) == file.kind = "array"

\* reader.onload of the artist file input; confirmed: window.confirm's answer
handleFileSelect(file, confirmed, rnd) ==
    /\ ManageShown
    /\ variant \in {"local", "basic"}
    /\ IF ~confirmed
       THEN /\ lastOp' = Op("handleFileSelect", file, "declined", "", 0, 0)
            /\ UNCHANGED artists
       ELSE IF ~isArray(file)
       THEN /\ lastOp' = Op("handleFileSelect", file, "failed", "Error importing file", 0, 0)
            /\ UNCHANGED artists
       ELSE LET validArtists == validArtistsOf(file.items)
            IN  IF Len(validArtists) = 0
                THEN /\ lastOp' = Op("handleFileSelect", file, "failed",
                                     "No valid artist data found in the file.", 0, 0)
                     /\ UNCHANGED artists
                ELSE LET res == importMerge(artists, validArtists, rnd)
                     IN  /\ Len(res.map) <= MaxArtists
                         /\ artists' = MapValues(res.map)
                         /\ lastOp' = Op("handleFileSelect", file, "merged",
                                         "Import complete.", res.added, res.updated)
    /\ UNCHANGED <<variant, sessionVars, writes, now, view, generationHistory, heap, apiKey,
                   manageVars, createVars, pending>>

\* the random draws an import of this file can make
RandomDraws(file) ==
    [1..addedCount(artists, validArtistsOf(file.items)) -> 0..(FracSteps - 1)]

----------------------------------------------------------------------------
(* Import of a history file (local): handleHistoryFileSelect               *)

\* the entries a history file holds
FileEntries ==
    { [titles |-> <<"x">>, themes |-> <<"p">>, lyrics |-> <<"y">>],
      [titles |-> << >>, themes |-> <<"q">>, lyrics |-> << >>] }

\* the keys a history file holds: the ids of artists of the roster, as
\* strings, and a key that is no artist's id
FileKeys == { String(id) : id \in ArtistIds } \cup { "zz" }

\* the content of the selected file: text that does not parse, a JSON value
\* that is no object (null, an array, a number), or an object
JHistory(data) == [kind |-> "object", data |-> data]
NonObject(k) == [kind |-> k, data |-> << >>]

HistoryFiles ==
    { NonObject("unparseable"), NonObject("null"), NonObject("array"), NonObject("number") }
    \cup { JHistory(data) : data \in UNION { [K -> FileEntries] : K \in SUBSET FileKeys } }

\* JSON.parse makes new objects: one reference for each key of the file
freshRefs(keys, free) ==
    CHOOSE f \in [keys -> free] : \A j, k \in keys : j # k => f[j] # f[k]

\* a merge in which the entries already there win
spreadUnder(prev, imported) ==
    [k \in DOMAIN prev \cup DOMAIN imported |->
        IF k \in DOMAIN prev THEN prev[k] ELSE imported[k]]

\* {...prev, ...importedHistory}
spread(prev, imported) ==
    [k \in DOMAIN prev \cup DOMAIN imported |->
        IF k \in DOMAIN imported THEN imported[k] ELSE prev[k]]

\* reader.onload of the history file input; confirmed: window.confirm's answer;
\* lastOp: the alert's count of keys, and how many of them were there before
handleHistoryFileSelect(file, confirmed) ==
    /\ ManageShown
    /\ variant = "local"
    /\ IF ~confirmed
       THEN /\ lastOp' = Op("handleHistoryFileSelect", file, "declined", "", 0, 0)
            /\ UNCHANGED <<generationHistory, heap>>
       ELSE IF file.kind # "object"
       THEN /\ lastOp' = Op("handleHistoryFileSelect", file, "failed",
                            "Error importing history file", 0, 0)
            /\ UNCHANGED <<generationHistory, heap>>
       ELSE LET keys == DOMAIN file.data
                kept == [k \in DOMAIN generationHistory \ keys |-> generationHistory[k]]
                free == FreeRefs(kept, pending)
            IN  /\ Cardinality(free) >= Cardinality(keys)
                /\ LET refs == freshRefs(keys, free)
                       newHistory == spread(generationHistory, refs)
                   IN  /\ generationHistory' = newHistory
                       /\ heap' = [r \in Refs |->
                                     IF \E k \in keys : refs[k] = r
                                     THEN file.data[CHOOSE k \in keys : refs[k] = r]
                                     ELSE Collect(heap, newHistory, pending)[r]]
                /\ lastOp' = Op("handleHistoryFileSelect", file, "merged",
                                "History import complete.", Cardinality(keys),
                                Cardinality(keys \cap DOMAIN generationHistory))
    /\ UNCHANGED <<variant, sessionVars, writes, now, view, artists, apiKey, manageVars, createVars,
                   pending>>

----------------------------------------------------------------------------
(* App: the clock and the view switcher *)

\* time passes
Tick ==
    /\ now < MaxClock
    /\ now' = now + 1
    /\ lastOp' = Op("Tick", now, "ok", "", 0, 0)
    /\ UNCHANGED <<variant, sessionVars, writes, view, artists, generationHistory, heap, apiKey,
                   manageVars, createVars, pending>>

\* a view that is mounted starts from its useState() values
ManageInit ==
    /\ editingArtist' = NoArtist
    /\ formName' = EMPTY
    /\ formStyle' = EMPTY
    /\ formError' = ""
    /\ isGenerating' = FALSE

\* an effect that would take the first artist whatever is selected
selectionEffectFirst(roster, selected) ==
    IF Len(roster) > 0 THEN String(roster[1].id) ELSE ""

\* useEffect(..., [artists, selectedArtistId]) of CreateSongView
selectionEffect(roster, selected) ==
    IF Len(roster) > 0 /\ ~\E i \in DOMAIN roster : String(roster[i].id) = selected
    THEN String(roster[1].id)
    ELSE IF Len(roster) = 0 THEN "" ELSE selected

CreateInit ==
    /\ selectedArtistId' = ""
    /\ songData' = NoSong
    /\ isLoading' = FALSE
    /\ isSuggesting' = FALSE
    /\ isRegenerating' = NULL
    /\ creativity' = 25
    /\ error' = NULL

\* CreateSongView is mounted, and its effect has run
CreateMount ==
    /\ selectedArtistId' = selectionEffect(artists, "")
    /\ songData' = NoSong
    /\ isLoading' = FALSE
    /\ isSuggesting' = FALSE
    /\ isRegenerating' = NULL
    /\ creativity' = 25
    /\ error' = NULL

\* the requests of a view that is unmounted go on; its setters do nothing
ofView(kind) == IF kind = "randomArtist" THEN "manage" ELSE "create"
unmounted(pend, v) ==
    [i \in DOMAIN pend |->
        IF ofView(pend[i].kind) = v THEN [pend[i] EXCEPT !.live = FALSE] ELSE pend[i]]

Views == IF variant = "cloud" THEN {"create", "manage", "profile"} ELSE {"create", "manage"}

\* the buttons of the view switcher
setView(v) ==
    /\ MainShown
    /\ v \in Views
    /\ v # view
    /\ view' = v
    /\ IF v = "create" THEN CreateMount ELSE CreateInit
    /\ ManageInit
    /\ pending' = unmounted(pending, view)
    /\ lastOp' = Op("setView", v, "ok", "", 0, 0)
    /\ UNCHANGED <<variant, sessionVars, writes, now, artists, generationHistory, heap, apiKey>>

\* the artist <select> of CreateSongView
selectArtist(i) ==
    /\ CreateShown
    /\ i \in DOMAIN artists
    /\ selectedArtistId' = selectionEffect(artists, String(artists[i].id))
    /\ lastOp' = Op("selectArtist", artists[i], "ok", "", 0, 0)
    /\ UNCHANGED <<variant, sessionVars, writes, now, view, artists, generationHistory, heap, apiKey,
                   manageVars, songData, isLoading, isSuggesting, isRegenerating,
                   creativity, error, pending>>

----------------------------------------------------------------------------
(* The generation gateway *)

\* a test that takes any key that was saved, the empty one too
hasAnyKey == apiKey # NULL

\* cloud: callGenerativeAI's test, if (!apiKey || !genAI); local: ai is there
\* whenever the views are
hasCredential ==
    IF variant = "cloud" THEN apiKey # NULL /\ apiKey # "" ELSE apiKey # NULL

MissingKey == "Your Google AI API key is missing or invalid. Please add it in your Profile."

\* artists.find(a => a.id.toString() === selectedArtistId)
\* (local: a.id === Number(selectedArtistId))
hasSelectedArtist == \E i \in DOMAIN artists : String(artists[i].id) = selectedArtistId
selectedArtist ==
    artists[CHOOSE i \in DOMAIN artists :
               /\ String(artists[i].id) = selectedArtistId
               /\ \A j \in 1..(i - 1) : String(artists[j].id) # selectedArtistId]

\* the history the callback closes over: the state of the render it was made in
\* (local writes through an updater and does not use it)
closure == IF variant = "cloud" THEN generationHistory ELSE << >>

\* a call of the service that is awaited: what its continuation closes over
Request(kind, field, artist, history, instruction) ==
    [kind |-> kind, field |-> field, artist |-> artist, history |-> history,
     level |-> creativity, instruction |-> instruction, live |-> TRUE,
     user |-> user, song |-> IF kind = "regenerate" THEN songData ELSE NoSong]

Remove(seq, i) == [j \in 1..(Len(seq) - 1) |-> IF j < i THEN seq[j] ELSE seq[j + 1]]

\* what the service answers: text that parses to an object, text that does
\* not parse, or a failure of the call
Ok(data) == [status |-> "ok", data |-> data]
NotJson == [status |-> "notJson", data |-> [title |-> UNDEF, style |-> UNDEF, lyrics |-> UNDEF]]
ServiceError == [status |-> "error", data |-> [title |-> UNDEF, style |-> UNDEF, lyrics |-> UNDEF]]

Parsed(t, s, l) == [title |-> t, style |-> s, lyrics |-> l]

GenerateResponses ==
    { Ok(Parsed("t1", "s1", "l1")), Ok(Parsed("t2", "s2", "l2")),
      Ok(Parsed(UNDEF, UNDEF, UNDEF)), NotJson, ServiceError }

SuggestResponses ==
    { Ok(Parsed("th1", UNDEF, UNDEF)), Ok(Parsed("th2", UNDEF, UNDEF)), ServiceError }

RegenerateResponses(field) ==
    { Ok([Parsed(UNDEF, UNDEF, UNDEF) EXCEPT ![field] = "r1"]),
      Ok(Parsed("r1", "r2", "r3")),
      Ok(Parsed(UNDEF, UNDEF, UNDEF)), NotJson, ServiceError }

\* the message the catch block shows: e.message of the error thrown
\* (cloud), or a fixed text (local)
errorMessage(resp, fallback) ==
    IF variant # "cloud" THEN fallback
    ELSE IF resp.status = "notJson" THEN "SyntaxError"
    ELSE "An error occurred while communicating with the AI service."

\* if (!newHistory[artistId]) newHistory[artistId] = { titles: [], themes: [], lyrics: [] }
\* then the pushes, on the entry found or made, and the new state:
\* base is the history object copied, push the change made to its entry
recorded(base, artistId, push(_)) ==
    LET isNew == artistId \notin DOMAIN base
        ref == IF isNew THEN NewRef(generationHistory, pending) ELSE base[artistId]
        old == IF isNew THEN EmptyEntry ELSE heap[ref]
    IN  [history |-> SetKey(base, artistId, ref),
         heap |-> [heap EXCEPT ![ref] = push(old)]]

\* the history an answer is recorded in.  cloud: const newHistory =
\* { ...generationHistory }, the state of the render in which the request was
\* made; local: setGenerationHistory(prev => { const newHistory = { ...prev };
\* ... }), the state when the updater runs
newHistoryOfRender(req) == req.history
newHistory(req) == IF variant = "cloud" THEN req.history ELSE generationHistory

canRecord(base, artistId) ==
    artistId \in DOMAIN base \/ FreeRefs(generationHistory, pending) # {}

\* cloud: the write of updateGenerationHistory, made for the user of the render
\* in which the request was started
historyWrite(req, rec) ==
    updateUserData(writes, req.user, HistoryData(HistoryValue(rec.history, rec.heap)))

\* cloud: updateGenerationHistory(newHistory); local: the updater's result
updateGenerationHistory(rec, pend) ==
    /\ generationHistory' = rec.history
    /\ heap' = Collect(rec.heap, rec.history, pend)

room(base, artistId, field) ==
    artistId \in DOMAIN base => Len(heap[base[artistId]][field]) < MaxHist

----------------------------------------------------------------------------
(* CreateSongView: the creativity slider and getCreativityInstruction.  A   *)
(* text is the sequence of its pieces: the literal parts and, in the local  *)
(* variant, the artist's style spliced between them.                        *)

\* <input type="range" min="0" max="100" step="25">
Levels == {0, 25, 50, 75, 100}

\* the slider's onChange
setCreativity(level) ==
    /\ CreateShown
    /\ variant # "basic"
    /\ level \in Levels
    /\ creativity' = level
    /\ lastOp' = Op("setCreativity", level, "ok", "", 0, 0)
    /\ UNCHANGED <<variant, sessionVars, writes, now, view, artists, generationHistory, heap, apiKey,
                   manageVars, selectedArtistId, songData, isLoading, isSuggesting,
                   isRegenerating, error, pending>>

\* cloud, in handleGenerate
getCreativityInstruction(level) ==
    IF level = 0 THEN <<"Adhere as strictly as possible to the artist's established style provided. The output should be a textbook example of their sound.">>
    ELSE IF level = 25 THEN <<"Stay close to the artist's core style, but introduce one or two subtle, fresh elements. It should feel familiar yet new.">>
    ELSE IF level = 50 THEN <<"Use the artist's style as a strong starting point, but feel free to blend in a complementary genre or experiment with song structure. This is an evolution of their sound.">>
    ELSE IF level = 75 THEN <<"Take significant creative liberties. The artist's core style should be recognizable as a faint echo, but the primary focus is on innovation and unexpected fusion of genres.">>
    ELSE <<"Completely deconstruct the artist's style. Generate a 'what if?' scenario. What if this artist made a song in a completely unrelated genre? Be bold, abstract, and unpredictable. The connection to the original artist should be artistic and conceptual, not literal.">>

\* a copy that has drifted: the text of level 50 is given for level 75 too
getCreativityInstructionDrifted(level) ==
    getCreativityInstruction(IF level = 75 THEN 50 ELSE level)

\* cloud, the copy in handleRegenerate
getCreativityInstructionRegenerate(level) ==
    IF level = 0 THEN <<"Adhere as strictly as possible to the artist's established style provided. The output should be a textbook example of their sound.">>
    ELSE IF level = 25 THEN <<"Stay close to the artist's core style, but introduce one or two subtle, fresh elements. It should feel familiar yet new.">>
    ELSE IF level = 50 THEN <<"Use the artist's style as a strong starting point, but feel free to blend in a complementary genre or experiment with song structure. This is an evolution of their sound.">>
    ELSE IF level = 75 THEN <<"Take significant creative liberties. The artist's core style should be recognizable as a faint echo, but the primary focus is on innovation and unexpected fusion of genres.">>
    ELSE <<"Completely deconstruct the artist's style. Generate a 'what if?' scenario. What if this artist made a song in a completely unrelated genre? Be bold, abstract, and unpredictable. The connection to the original artist should be artistic and conceptual, not literal.">>

\* local, in handleGenerate: the switch, with the style of the selected artist
getCreativityInstructionLocal(level, style) ==
    CASE level = 0 ->
           <<"The musical style of the song MUST be \"Identical\" to: \"", style,
             "\". Do not deviate or add any other stylistic elements.">>
      [] level = 25 ->
           <<"The musical style should be \"Subtle\". It must be very close to \"", style,
             "\", but with a single, subtle new element. For example, add a slightly different rhythmic feel or a new, complementary instrument, while keeping the core identity intact.">>
      [] level = 50 ->
           <<"The musical style should be \"Inspired\". It must be inspired by \"", style,
             "\", but feel free to add a unique twist or variation. It should be recognizable as the artist, but clearly a new take on their sound. This is the default creative level.">>
      [] level = 75 ->
           <<"The musical style must be an \"Experimental\" FUSION. Start with the artist's core style (\"", style,
             "\"), and blend it with a surprising but coherent genre. For example, if the artist is 'Synthwave', you could blend it with 'Sea Shanty' or 'Baroque'. Be creative and bold.">>
      [] level = 100 ->
           <<"The musical style should be a \"Wildcard\". Take the artist's core style (\"", style,
             "\") as a distant starting point and create something wildly experimental and avant-garde. The connection to the original style might be abstract or purely conceptual. This is a chance for a completely unpredictable and high-concept result.">>
      [] OTHER ->
           <<"The musical style should be INSPIRED BY \"", style,
             "\", but with its own unique variation or twist. It should be recognizable as the artist, but clearly a new take on their sound.">>

\* const creativityInstruction = getCreativityInstruction(creativity)
generateInstruction ==
    IF variant = "cloud" THEN getCreativityInstruction(creativity)
    ELSE getCreativityInstructionLocal(creativity, selectedArtist.style)

----------------------------------------------------------------------------
(* CreateSongView: handleGenerate *)

\* the Generate Song button
handleGenerate ==
    /\ CreateShown
    /\ ~isLoading /\ Len(artists) > 0
    /\ IF ~hasSelectedArtist
       THEN /\ error' = "Please select an artist."
            /\ lastOp' = Op("handleGenerate", NoArtist, "noArtist", "", 0, 0)
            /\ UNCHANGED <<songData, isLoading, pending>>
       ELSE IF ~hasCredential
       THEN /\ songData' = NoSong
            /\ error' = MissingKey
            /\ isLoading' = FALSE
            /\ lastOp' = Op("handleGenerate", selectedArtist, "noCredential", "", 0, 0)
            /\ UNCHANGED pending
       ELSE /\ Len(pending) < MaxPending
            /\ songData' = NoSong
            /\ error' = NULL
            /\ isLoading' = TRUE
            /\ pending' = Append(pending, Request("generate", "", selectedArtist, closure,
                                                generateInstruction))
            /\ lastOp' = Op("handleGenerate", selectedArtist, "called", "", 0, 0)
    /\ UNCHANGED <<variant, sessionVars, writes, now, view, artists, generationHistory, heap, apiKey,
                   manageVars, selectedArtistId, creativity, isSuggesting, isRegenerating>>

\* the answer to a handleGenerate request arrives
generateDone(i, resp) ==
    /\ i \in DOMAIN pending
    /\ pending[i].kind = "generate"
    /\ LET req == pending[i]
           rest == Remove(pending, i)
           artistId == String(req.artist.id)
           base == newHistory(req)
           push(e) == [e EXCEPT !.titles = Append(@, resp.data.title),
                                !.lyrics = Append(@, resp.data.lyrics)]
       IN  /\ pending' = rest
           /\ IF resp.status = "ok"
              THEN /\ canRecord(base, artistId)
                   /\ room(base, artistId, "titles") /\ room(base, artistId, "lyrics")
                   /\ canSave(1)
                   /\ updateGenerationHistory(recorded(base, artistId, push), rest)
                   /\ writes' = historyWrite(req, recorded(base, artistId, push))
                   /\ songData' = IF req.live THEN resp.data ELSE songData
                   /\ UNCHANGED error
                   /\ lastOp' = Op("generateDone", [req |-> req, resp |-> resp], "stored", "", 0, 0)
              ELSE /\ error' = IF req.live
                               THEN errorMessage(resp, "Failed to generate the song. Please try again.")
                               ELSE error
                   /\ heap' = Collect(heap, generationHistory, rest)
                   /\ lastOp' = Op("generateDone", [req |-> req, resp |-> resp], "failed", "", 0, 0)
                   /\ UNCHANGED <<generationHistory, songData, writes>>
           /\ isLoading' = IF req.live THEN FALSE ELSE isLoading
    /\ UNCHANGED <<variant, sessionVars, now, view, artists, apiKey, manageVars,
                   selectedArtistId, creativity, isSuggesting, isRegenerating>>

----------------------------------------------------------------------------
(* CreateSongView: handleSuggestTheme *)

\* the suggest-a-theme button
handleSuggestTheme ==
    /\ CreateShown
    /\ ~isSuggesting /\ Len(artists) > 0 /\ selectedArtistId # ""
    /\ IF ~hasSelectedArtist
       THEN /\ error' = "Please select an artist to get a theme suggestion."
            /\ lastOp' = Op("handleSuggestTheme", NoArtist, "noArtist", "", 0, 0)
            /\ UNCHANGED <<isSuggesting, pending>>
       ELSE IF ~hasCredential
       THEN /\ error' = MissingKey
            /\ isSuggesting' = FALSE
            /\ lastOp' = Op("handleSuggestTheme", selectedArtist, "noCredential", "", 0, 0)
            /\ UNCHANGED pending
       ELSE /\ Len(pending) < MaxPending
            /\ error' = NULL
            /\ isSuggesting' = TRUE
            /\ pending' = Append(pending, Request("suggest", "", selectedArtist, closure, << >>))
            /\ lastOp' = Op("handleSuggestTheme", selectedArtist, "called", "", 0, 0)
    /\ UNCHANGED <<variant, sessionVars, writes, now, view, artists, generationHistory, heap, apiKey,
                   manageVars, selectedArtistId, creativity, songData, isLoading, isRegenerating>>

\* the answer to a handleSuggestTheme request arrives
suggestDone(i, resp) ==
    /\ i \in DOMAIN pending
    /\ pending[i].kind = "suggest"
    /\ LET req == pending[i]
           rest == Remove(pending, i)
           artistId == String(req.artist.id)
           base == newHistory(req)
           push(e) == [e EXCEPT !.themes = Append(@, resp.data.title)]
       IN  /\ pending' = rest
           /\ IF resp.status = "ok"
              THEN /\ canRecord(base, artistId)
                   /\ room(base, artistId, "themes")
                   /\ canSave(1)
                   /\ updateGenerationHistory(recorded(base, artistId, push), rest)
                   /\ writes' = historyWrite(req, recorded(base, artistId, push))
                   /\ UNCHANGED error
                   /\ lastOp' = Op("suggestDone", [req |-> req, resp |-> resp], "stored", "", 0, 0)
              ELSE /\ error' = IF req.live
                               THEN errorMessage(resp, "Failed to suggest a theme. Please try again.")
                               ELSE error
                   /\ heap' = Collect(heap, generationHistory, rest)
                   /\ lastOp' = Op("suggestDone", [req |-> req, resp |-> resp], "failed", "", 0, 0)
                   /\ UNCHANGED <<generationHistory, writes>>
           /\ isSuggesting' = IF req.live THEN FALSE ELSE isSuggesting
    /\ UNCHANGED <<variant, sessionVars, now, view, artists, apiKey, manageVars,
                   selectedArtistId, creativity, songData, isLoading, isRegenerating>>

----------------------------------------------------------------------------
(* CreateSongView: handleRegenerate (cloud) *)

Fields == {"title", "style", "lyrics"}

\* a value that passes if (x): neither undefined nor ""
truthy(x) == x # UNDEF /\ x # ""

\* the regenerate button of a result card
handleRegenerate(field) ==
    /\ CreateShown
    /\ variant = "cloud"
    /\ field \in Fields
    /\ songData # NoSong
    /\ truthy(songData[field]) /\ isRegenerating # field
    /\ IF ~hasSelectedArtist
       THEN /\ error' = "Cannot regenerate: missing artist or song data."
            /\ lastOp' = Op("handleRegenerate", field, "noArtist", "", 0, 0)
            /\ UNCHANGED <<isRegenerating, pending>>
       ELSE IF songData.lyrics = UNDEF
       THEN \* songData.lyrics.substring throws while the prompt is built,
            \* outside the try block
            /\ isRegenerating' = field
            /\ error' = NULL
            /\ lastOp' = Op("handleRegenerate", field, "threw", "", 0, 0)
            /\ UNCHANGED pending
       ELSE IF ~hasCredential
       THEN /\ isRegenerating' = NULL
            /\ error' = MissingKey
            /\ lastOp' = Op("handleRegenerate", field, "noCredential", "", 0, 0)
            /\ UNCHANGED pending
       ELSE /\ Len(pending) < MaxPending
            /\ isRegenerating' = field
            /\ error' = NULL
            /\ pending' = Append(pending, Request("regenerate", field, selectedArtist, closure,
                                                getCreativityInstructionRegenerate(creativity)))
            /\ lastOp' = Op("handleRegenerate", field, "called", "", 0, 0)
    /\ UNCHANGED <<variant, sessionVars, writes, now, view, artists, generationHistory, heap, apiKey,
                   manageVars, selectedArtistId, creativity, songData, isLoading, isSuggesting>>

\* { ...prevData, ...parsedData }
merged(prevData, parsedData) ==
    [f \in Fields |-> IF parsedData[f] # UNDEF THEN parsedData[f] ELSE prevData[f]]

\* the answer to a handleRegenerate request arrives; the history is written
\* inside the updater of setSongData, which runs if the view is still mounted
regenerateDone(i, resp) ==
    /\ i \in DOMAIN pending
    /\ pending[i].kind = "regenerate"
    /\ LET req == pending[i]
           rest == Remove(pending, i)
           artistId == String(req.artist.id)
           base == req.history
           push(e) ==
               [e EXCEPT !.titles = IF req.field = "title" /\ truthy(resp.data.title)
                                    THEN Append(@, resp.data.title) ELSE @,
                         !.lyrics = IF req.field = "lyrics" /\ truthy(resp.data.lyrics)
                                    THEN Append(@, resp.data.lyrics) ELSE @]
       IN  /\ pending' = rest
           /\ IF resp.status = "ok"
              THEN /\ IF req.live /\ songData # NoSong
                      THEN /\ canRecord(base, artistId)
                           /\ req.field # "style" =>
                                  room(base, artistId, "titles") /\ room(base, artistId, "lyrics")
                           /\ canSave(1)
                           /\ songData' = merged(songData, resp.data)
                           /\ updateGenerationHistory(recorded(base, artistId, push), rest)
                           /\ writes' = historyWrite(req, recorded(base, artistId, push))
                           /\ lastOp' = Op("regenerateDone", [req |-> req, resp |-> resp], "stored", "", 0, 0)
                      ELSE /\ heap' = Collect(heap, generationHistory, rest)
                           /\ lastOp' = Op("regenerateDone", [req |-> req, resp |-> resp], "dropped", "", 0, 0)
                           /\ UNCHANGED <<generationHistory, songData, writes>>
                   /\ UNCHANGED error
              ELSE /\ error' = IF req.live
                               THEN errorMessage(resp, "Failed to regenerate. Please try again.")
                               ELSE error
                   /\ heap' = Collect(heap, generationHistory, rest)
                   /\ lastOp' = Op("regenerateDone", [req |-> req, resp |-> resp], "failed", "", 0, 0)
                   /\ UNCHANGED <<generationHistory, songData, writes>>
           /\ isRegenerating' = IF req.live THEN NULL ELSE isRegenerating
    /\ UNCHANGED <<variant, sessionVars, now, view, artists, apiKey, manageVars,
                   selectedArtistId, creativity, isLoading, isSuggesting>>

----------------------------------------------------------------------------
(* ManageArtistsView: handleGenerateRandomArtist *)

RandomArtistResponses ==
    { [status |-> "ok", name |-> <<"b", " ">>, style |-> <<" ", "t">>],
      [status |-> "ok", name |-> EMPTY, style |-> <<"s">>],
      [status |-> "notJson", name |-> EMPTY, style |-> EMPTY],
      [status |-> "error", name |-> EMPTY, style |-> EMPTY] }

\* the "I trust my luck" button, shown while no artist is edited
handleGenerateRandomArtist ==
    /\ ManageShown
    /\ editingArtist = NoArtist /\ ~isGenerating
    /\ IF ~hasCredential
       THEN /\ formError' = MissingKey
            /\ isGenerating' = FALSE
            /\ lastOp' = Op("handleGenerateRandomArtist", NoArtist, "noCredential", "", 0, 0)
            /\ UNCHANGED pending
       ELSE /\ Len(pending) < MaxPending
            /\ formError' = ""
            /\ isGenerating' = TRUE
            /\ pending' = Append(pending, Request("randomArtist", "", NoArtist, << >>, << >>))
            /\ lastOp' = Op("handleGenerateRandomArtist", NoArtist, "called", "", 0, 0)
    /\ UNCHANGED <<variant, sessionVars, writes, now, view, artists, generationHistory, heap, apiKey,
                   editingArtist, formName, formStyle, createVars>>

\* the answer to a handleGenerateRandomArtist request arrives
randomArtistDone(i, resp) ==
    /\ i \in DOMAIN pending
    /\ pending[i].kind = "randomArtist"
    /\ LET req == pending[i]
           valid == resp.status = "ok" /\ resp.name # EMPTY /\ resp.style # EMPTY
           message == IF resp.status = "ok" THEN "Invalid data format from API"
                      ELSE errorMessage(resp, "")
       IN  /\ pending' = Remove(pending, i)
           /\ formName' = IF req.live /\ valid THEN trim(resp.name) ELSE formName
           /\ formStyle' = IF req.live /\ valid THEN trim(resp.style) ELSE formStyle
           /\ formError' = IF req.live /\ ~valid /\ variant = "cloud" THEN message ELSE formError
           /\ isGenerating' = IF req.live THEN FALSE ELSE isGenerating
           /\ lastOp' = Op("randomArtistDone", [req |-> req, resp |-> resp], IF valid THEN "filled" ELSE "failed",
                           IF ~valid /\ variant # "cloud"
                           THEN "Sorry, couldn't generate an artist. Please try again."
                           ELSE "", 0, 0)
    /\ UNCHANGED <<variant, sessionVars, writes, now, view, artists, generationHistory, heap, apiKey,
                   editingArtist, createVars>>

----------------------------------------------------------------------------
(* The credential: cloud ProfileView and updateApiKey, local ApiKeyEntryView *)

\* what the user can save as a key in the profile (the field may be empty)
KeyInputs == {"", "k"}

\* cloud: ProfileView's Save API Key button, updateApiKey(keyInput)
updateApiKey(key) ==
    /\ variant = "cloud"
    /\ MainShown
    /\ view = "profile"
    /\ canSave(1)
    /\ apiKey' = key
    /\ writes' = updateUserData(writes, user, KeyData(key))
    /\ lastOp' = Op("updateApiKey", key, "ok", "", 0, 0)
    /\ UNCHANGED <<variant, sessionVars, now, view, artists, generationHistory, heap,
                   manageVars, createVars, pending>>

\* local: the form of ApiKeyEntryView, if (key.trim()) onApiKeySubmit(key.trim());
\* constructed: whether new GoogleGenAI({ apiKey: key }) returns or throws
handleApiKeySubmit(key, constructed) ==
    /\ variant = "local"
    /\ apiKey = NULL
    /\ key # ""
    /\ IF constructed
       THEN /\ apiKey' = key
            /\ IF view = "create" THEN CreateMount ELSE CreateInit
            /\ ManageInit
            /\ lastOp' = Op("handleApiKeySubmit", key, "ok", "", 0, 0)
       ELSE /\ lastOp' = Op("handleApiKeySubmit", key, "failed",
                            "Invalid API key or initialization failed. Please check the console for details.", 0, 0)
            /\ UNCHANGED <<apiKey, manageVars, createVars>>
    /\ UNCHANGED <<variant, sessionVars, writes, now, view, artists, generationHistory, heap, pending>>

\* local: the Clear API Key button of the header; both views are unmounted
handleClearApiKey ==
    /\ variant = "local"
    /\ apiKey # NULL
    /\ apiKey' = NULL
    /\ CreateInit
    /\ ManageInit
    /\ pending' = [i \in DOMAIN pending |-> [pending[i] EXCEPT !.live = FALSE]]
    /\ lastOp' = Op("handleClearApiKey", "", "ok", "", 0, 0)
    /\ UNCHANGED <<variant, sessionVars, writes, now, view, artists, generationHistory, heap>>

----------------------------------------------------------------------------
(* cloud App: the session.  onAuthStateChanged's listener, the effect that  *)
(* loads the profile, the handlers of AuthView and the Logout button.       *)

\* a handler that awaits: the user it works for and the call it waits for
Await(kind, uid, stage) == [kind |-> kind, uid |-> uid, stage |-> stage, name |-> NoName]

\* AuthView is rendered, and none of its handlers has set loading
AuthShown ==
    /\ variant = "cloud"
    /\ appReady
    /\ user = NULL
    /\ \A i \in DOMAIN io : io[i].stage \notin {"getDocs", "createUser"}

\* the listener of onAuthStateChanged is called with a user, and the effect on
\* [user, db] runs: loadUserData sets dataLoading and calls getDoc
signedIn(u, waiting) ==
    /\ user' = u
    /\ appReady' = TRUE
    /\ dataLoading' = TRUE
    /\ io' = Append(waiting, Await("load", u, "getDoc"))

\* the first call of the listener, with the user of a session that was kept or
\* with null
authStateChanged(u) ==
    /\ variant = "cloud"
    /\ ~appReady
    /\ IF u = NULL
       THEN /\ appReady' = TRUE
            /\ UNCHANGED <<user, dataLoading, io>>
       ELSE /\ accounts[u] # "none"
            /\ Len(io) < MaxIo
            /\ signedIn(u, io)
    /\ lastOp' = Op("authStateChanged", u, "ok", "", 0, 0)
    /\ UNCHANGED <<variant, now, view, artists, generationHistory, heap, apiKey,
                   manageVars, createVars, pending, accounts, docs, writes>>

\* AuthView.handleSubmit, isLogin: signInWithEmailAndPassword, then the listener
handleSubmitLogin(u) ==
    /\ AuthShown
    /\ accounts[u] # "none"
    /\ Len(io) < MaxIo
    /\ signedIn(u, io)
    /\ lastOp' = Op("handleSubmitLogin", u, "ok", "", 0, 0)
    /\ UNCHANGED <<variant, now, view, artists, generationHistory, heap, apiKey,
                   manageVars, createVars, pending, accounts, docs, writes>>

\* the Logout button of the header: signOut, the listener is called with null
\* and the effect on [user, db] clears the data; the views are unmounted
handleLogout ==
    /\ variant = "cloud"
    /\ user # NULL
    /\ user' = NULL
    /\ dataLoading' = FALSE
    /\ artists' = << >>
    /\ generationHistory' = << >>
    /\ apiKey' = NULL
    /\ pending' = [i \in DOMAIN pending |-> [pending[i] EXCEPT !.live = FALSE]]
    /\ heap' = Collect(heap, << >>, pending')
    /\ CreateInit
    /\ ManageInit
    /\ lastOp' = Op("handleLogout", user, "ok", "", 0, 0)
    /\ UNCHANGED <<variant, now, view, appReady, accounts, docs, writes, io>>

\* the views after a step that may end the loading, roster the artists then:
\* they are mounted when they come to be rendered, and a CreateSongView that
\* is mounted runs its effect on the roster
rendered(shownAfter, roster) ==
    IF shownAfter /\ ~MainShown
    THEN /\ selectedArtistId' = IF view = "create" THEN selectionEffect(roster, "") ELSE ""
         /\ songData' = NoSong
         /\ isLoading' = FALSE
         /\ isSuggesting' = FALSE
         /\ isRegenerating' = NULL
         /\ creativity' = 25
         /\ error' = NULL
         /\ ManageInit
    ELSE /\ selectedArtistId' = IF shownAfter /\ view = "create"
                                THEN selectionEffect(roster, selectedArtistId)
                                ELSE selectedArtistId
         /\ UNCHANGED <<songData, isLoading, isSuggesting, isRegenerating, creativity,
                        error, manageVars>>

\* setGenerationHistory(data.generationHistory): the objects of the snapshot
loadedHistory(value) ==
    LET keys == DOMAIN value
        refs == freshRefs(keys, FreeRefs(<< >>, pending))
    IN  [history |-> refs,
         heap |-> [r \in Refs |->
                     IF \E k \in keys : refs[k] = r
                     THEN value[CHOOSE k \in keys : refs[k] = r]
                     ELSE heap[r]]]

\* data.apiKey || null
loadedKey(k) == IF k = "" THEN NULL ELSE k

\* loadUserData after its getDoc: ok tells whether the read succeeded.  The
\* user is the one of the effect that started the load; the setters are App's.
loadDone(i, ok) ==
    /\ variant = "cloud"
    /\ i \in DOMAIN io
    /\ io[i].kind = "load" /\ io[i].stage = "getDoc"
    /\ LET uid == io[i].uid
           doc == getDoc(uid)
           rest == Remove(io, i)
       IN  IF ~ok
           THEN /\ dataLoading' = FALSE
                /\ io' = rest
                /\ rendered(appReady /\ user # NULL, artists)
                /\ heap' = heap
                /\ lastOp' = Op("loadDone", uid, "failed", "Error loading user data", 0, 0)
                /\ UNCHANGED <<artists, generationHistory, apiKey, writes>>
           ELSE IF doc.exists
           THEN /\ Cardinality(FreeRefs(<< >>, pending)) >= Cardinality(DOMAIN doc.generationHistory)
                /\ artists' = doc.artists
                /\ updateGenerationHistory(loadedHistory(doc.generationHistory), pending)
                /\ apiKey' = loadedKey(doc.apiKey)
                /\ IF ~doc.email
                   THEN /\ Len(writes) < MaxWrites
                        /\ writes' = Append(writes, setDoc(uid, EmailData, TRUE, "load"))
                        /\ io' = [io EXCEPT ![i].stage = "setDoc"]
                        /\ rendered(MainShown, doc.artists)
                        /\ UNCHANGED dataLoading
                   ELSE /\ dataLoading' = FALSE
                        /\ io' = rest
                        /\ rendered(appReady /\ user # NULL, doc.artists)
                        /\ UNCHANGED writes
                /\ lastOp' = Op("loadDone", uid, "loaded", "", 0, 0)
           ELSE IF accounts[uid] \in Names
           THEN /\ Len(writes) < MaxWrites
                /\ writes' = Append(writes, setDoc(uid, ProfileData(accounts[uid]), FALSE, "load"))
                /\ io' = [io EXCEPT ![i].stage = "create"]
                /\ lastOp' = Op("loadDone", uid, "creating", "", 0, 0)
                /\ UNCHANGED <<artists, generationHistory, heap, apiKey, dataLoading,
                               manageVars, createVars>>
           ELSE /\ dataLoading' = FALSE
                /\ io' = rest
                /\ rendered(appReady /\ user # NULL, artists)
                /\ heap' = heap
                /\ lastOp' = Op("loadDone", uid, "noDocument", "", 0, 0)
                /\ UNCHANGED <<artists, generationHistory, apiKey, writes>>
    /\ UNCHANGED <<variant, now, view, pending, user, appReady, accounts, docs>>

\* the server applies the oldest setDoc call and the handler that awaits it goes
\* on: loadUserData ends (after setting the empty data, if it made the document)
writeDone ==
    /\ variant = "cloud"
    /\ writes # << >>
    /\ LET w == Head(writes)
           waiting == { i \in DOMAIN io : io[i].kind = w.wake /\ io[i].uid = w.uid
                                          /\ io[i].stage \in {"setDoc", "create"} }
       IN  /\ docs' = [docs EXCEPT ![w.uid] = applied(@, w)]
           /\ writes' = Tail(writes)
           /\ IF waiting = {}
              THEN /\ lastOp' = Op("writeDone", w, "ok", "", 0, 0)
                   /\ UNCHANGED <<artists, generationHistory, heap, apiKey, dataLoading, io,
                                  manageVars, createVars>>
              ELSE LET i == CHOOSE j \in waiting : \A k \in waiting : j <= k
                       made == io[i].stage = "create"
                       roster == IF made THEN << >> ELSE artists
                   IN  /\ io' = Remove(io, i)
                       /\ dataLoading' = FALSE
                       /\ artists' = roster
                       /\ IF made
                          THEN /\ generationHistory' = << >>
                               /\ heap' = Collect(heap, << >>, pending)
                               /\ apiKey' = NULL
                          ELSE UNCHANGED <<generationHistory, heap, apiKey>>
                       /\ rendered(appReady /\ user # NULL, roster)
                       /\ lastOp' = Op("writeDone", w, "woke", "", 0, 0)
    /\ UNCHANGED <<variant, now, view, pending, user, appReady, accounts>>

\* AuthView.handleSubmit, sign-up: the query for the username is made
handleSubmit(u, username) ==
    /\ AuthShown
    /\ Len(io) < MaxIo
    /\ io' = Append(io, [Await("signUp", u, "getDocs") EXCEPT !.name = username])
    /\ lastOp' = Op("handleSubmit", u, "ok", "", 0, 0)
    /\ UNCHANGED <<variant, now, view, artists, generationHistory, heap, apiKey,
                   manageVars, createVars, pending, user, appReady, dataLoading,
                   accounts, docs, writes>>

\* handleSubmit goes on after the call it awaited:
\*   getDocs - the username is taken, or createUserWithEmailAndPassword is called
\*   createUser - the account is made and signed in (the listener runs), and
\*                updateProfile is called
\*   updateProfile - the display name is set and setDoc makes the document
signUpStep(i) ==
    /\ variant = "cloud"
    /\ i \in DOMAIN io
    /\ io[i].kind = "signUp"
    /\ LET u == io[i].uid
           rest == Remove(io, i)
       IN  CASE io[i].stage = "getDocs" ->
                  /\ IF \E v \in Uids : getDoc(v).exists /\ getDoc(v).displayName = io[i].name
                     THEN /\ io' = rest
                          /\ lastOp' = Op("signUpStep", u, "taken",
                                          "Username is already taken. Please choose another one.", 0, 0)
                     ELSE /\ io' = [io EXCEPT ![i].stage = "createUser"]
                          /\ lastOp' = Op("signUpStep", u, "free", "", 0, 0)
                  /\ UNCHANGED <<user, appReady, dataLoading, accounts, writes>>
             [] io[i].stage = "createUser" ->
                  IF accounts[u] # "none"
                  THEN /\ io' = rest
                       /\ lastOp' = Op("signUpStep", u, "inUse",
                                       "An account with this email address already exists.", 0, 0)
                       /\ UNCHANGED <<user, appReady, dataLoading, accounts, writes>>
                  ELSE /\ Len(io) < MaxIo
                       /\ accounts' = [accounts EXCEPT ![u] = "unnamed"]
                       /\ signedIn(u, [io EXCEPT ![i].stage = "updateProfile"])
                       /\ lastOp' = Op("signUpStep", u, "created", "", 0, 0)
                       /\ UNCHANGED writes
             [] io[i].stage = "updateProfile" ->
                  /\ Len(writes) < MaxWrites
                  /\ accounts' = [accounts EXCEPT ![u] = io[i].name]
                  /\ writes' = Append(writes, setDoc(u, ProfileData(io[i].name), FALSE, "none"))
                  /\ io' = rest
                  /\ lastOp' = Op("signUpStep", u, "document", "", 0, 0)
                  /\ UNCHANGED <<user, appReady, dataLoading>>
    /\ UNCHANGED <<variant, now, view, artists, generationHistory, heap, apiKey,
                   manageVars, createVars, pending, docs>>

\* AuthView.handleGoogleSignIn: signInWithPopup returned the user (the listener
\* runs) and getDoc is called
handleGoogleSignIn(u, name) ==
    /\ AuthShown
    /\ Len(io) + 2 <= MaxIo
    /\ accounts[u] \in {"none", name}
    /\ accounts' = [accounts EXCEPT ![u] = name]
    /\ signedIn(u, Append(io, Await("google", u, "getDoc")))
    /\ lastOp' = Op("handleGoogleSignIn", u, "ok", "", 0, 0)
    /\ UNCHANGED <<variant, now, view, artists, generationHistory, heap, apiKey,
                   manageVars, createVars, pending, docs, writes>>

\* handleGoogleSignIn after its getDoc: if (!docSnap.exists() && ...) setDoc
googleRead(i) ==
    /\ variant = "cloud"
    /\ i \in DOMAIN io
    /\ io[i].kind = "google"
    /\ IF ~getDoc(io[i].uid).exists
       THEN /\ Len(writes) < MaxWrites
            /\ writes' = Append(writes, setDoc(io[i].uid, ProfileData(accounts[io[i].uid]), FALSE, "none"))
            /\ lastOp' = Op("googleRead", io[i].uid, "document", "", 0, 0)
       ELSE /\ lastOp' = Op("googleRead", io[i].uid, "exists", "", 0, 0)
            /\ UNCHANGED writes
    /\ io' = Remove(io, i)
    /\ UNCHANGED <<variant, now, view, artists, generationHistory, heap, apiKey,
                   manageVars, createVars, pending, user, appReady, dataLoading,
                   accounts, docs>>

----------------------------------------------------------------------------
(* The application after construction, and its steps *)

\* basic builds its client from process.env.API_KEY; the others start without.
\* cloud: the effects of the mount have run (no user: dataLoading is false),
\* the listener of onAuthStateChanged was not called yet; one user is registered
\* the application after construction, with the accounts of Firebase Auth and
\* the profile documents of Firestore as they are at that moment
Constructed(v, registered, stored) ==
    /\ variant = v
    /\ now = 1
    /\ view = "create"
    /\ artists = << >>
    /\ generationHistory = << >>
    /\ heap = [r \in Refs |-> EmptyEntry]
    /\ apiKey = IF v = "basic" THEN "env" ELSE NULL
    /\ editingArtist = NoArtist
    /\ formName = EMPTY
    /\ formStyle = EMPTY
    /\ formError = ""
    /\ isGenerating = FALSE
    /\ selectedArtistId = ""
    /\ songData = NoSong
    /\ isLoading = FALSE
    /\ isSuggesting = FALSE
    /\ isRegenerating = NULL
    /\ creativity = 25
    /\ error = NULL
    /\ pending = << >>
    /\ user = NULL
    /\ appReady = FALSE
    /\ dataLoading = FALSE
    /\ accounts = registered
    /\ docs = stored
    /\ writes = << >>
    /\ io = << >>
    /\ lastOp = Op("start", v, "ok", "", 0, 0)

\* one registered user, whose profile document is the one its sign-up made
Started(v) ==
    Constructed(v, [u \in Uids |-> IF u = "u1" THEN "ann" ELSE "none"],
                   [u \in Uids |-> IF u = "u1" THEN NewProfile ELSE NoDoc])

Init == \E v \in {"cloud", "local", "basic"} : Started(v)

TypeName == \E v \in NameInputs : setFormName(v)
TypeStyle == \E v \in StyleInputs : setFormStyle(v)
Edit == \E i \in DOMAIN artists : editClick(i)
Delete == \E i \in DOMAIN artists, confirmed \in BOOLEAN : handleDelete(i, confirmed)
SwitchView == \E v \in Views : setView(v)
SubmitKey == \E constructed \in BOOLEAN : handleApiKeySubmit("k", constructed)

\* cloud: the session of the registered user is resumed and the profile is read
Resume == authStateChanged("u1")
Loaded == \E i \in DOMAIN io : loadDone(i, TRUE)

\* the server has applied every write: where the persistence is not the
\* subject, the user's next step comes after the server's answer
settled == writes = << >>

\* the roster kept by hand, in the Manage Artists view of the three variants
Next ==
    \/ Resume
    \/ Loaded
    \/ writeDone
    \/ settled /\ TypeName
    \/ settled /\ TypeStyle
    \/ settled /\ handleSave
    \/ settled /\ Edit
    \/ settled /\ cancelClick
    \/ settled /\ Delete
    \/ settled /\ SwitchView
    \/ settled /\ SubmitKey
    \/ settled /\ Tick

Spec == Init /\ [][Next]_vars

----------------------------------------------------------------------------
(* local: the roster kept by hand and restored from a backup file *)

InitLocal == Started("local")

\* a backup of two artists
BackupFiles ==
    { JArray(items) : items \in [1..2 -> { JObject(Str(<<"A">>), Str(<<"s">>)),
                                           JObject(Str(<<"b">>), Str(<<"s">>)) }] }

ImportBackup ==
    \E file \in BackupFiles :
        \E rnd \in RandomDraws(file) : handleFileSelect(file, TRUE, rnd)

TypeBackupName == \E v \in {<<"A">>, <<" ", "a">>} : setFormName(v)
TypeBackupStyle == setFormStyle(<<"s">>)

NextMerge ==
    \/ TypeBackupName
    \/ TypeBackupStyle
    \/ handleSave
    \/ Edit
    \/ cancelClick
    \/ Delete
    \/ ImportBackup
    \/ SwitchView
    \/ SubmitKey
    \/ Tick

SpecMerge == InitLocal /\ [][NextMerge]_vars

----------------------------------------------------------------------------
(* local, basic: the import of artist files *)

InitImport == \E v \in {"local", "basic"} : Started(v)

ImportArtists ==
    \E file \in ArtistFiles :
        \/ handleFileSelect(file, FALSE, << >>)
        \/ \E rnd \in RandomDraws(file) : handleFileSelect(file, TRUE, rnd)

NextImport ==
    \/ ImportArtists
    \/ SwitchView
    \/ SubmitKey
    \/ Tick

SpecImport == InitImport /\ [][NextImport]_vars

----------------------------------------------------------------------------
(* cloud: the studio - one artist, the credential and the generate requests *)

InitCloud == Started("cloud")

TypeStudioName == setFormName(<<"A">>)
TypeStudioStyle == setFormStyle(<<"s">>)
SaveKey == \E key \in KeyInputs : updateApiKey(key)

\* the answers of the service to the studio's requests
StudioSongs == { Ok(Parsed("t1", "s1", "l1")), Ok(Parsed("t2", "s2", "l2")), ServiceError }
StudioThemes == { Ok(Parsed("th1", UNDEF, UNDEF)), ServiceError }
StudioRewrites(field) == { Ok([Parsed(UNDEF, UNDEF, UNDEF) EXCEPT ![field] = "r1"]), NotJson }

GenerateDone == \E i \in DOMAIN pending, resp \in StudioSongs : generateDone(i, resp)

NextStudio ==
    \/ Resume
    \/ Loaded
    \/ writeDone
    \/ settled /\ TypeStudioName
    \/ settled /\ TypeStudioStyle
    \/ settled /\ handleSave
    \/ settled /\ Delete
    \/ settled /\ SwitchView
    \/ settled /\ SaveKey
    \/ settled /\ handleGenerate
    \/ settled /\ GenerateDone

SpecStudio == InitCloud /\ [][NextStudio]_vars

----------------------------------------------------------------------------
(* cloud: every kind of request, one at a time, with and without credential *)

idle == pending = << >>

GenerateAlone == idle /\ handleGenerate
SuggestAlone == idle /\ handleSuggestTheme
RegenerateAlone == \E field \in Fields : idle /\ handleRegenerate(field)
RandomArtistAlone == idle /\ handleGenerateRandomArtist
SongDone == \E i \in DOMAIN pending : generateDone(i, Ok(Parsed("t1", "s1", "l1")))
SuggestDone == \E i \in DOMAIN pending, resp \in StudioThemes : suggestDone(i, resp)
RegenerateDone ==
    \E i \in DOMAIN pending :
        \E resp \in StudioRewrites(pending[i].field) : regenerateDone(i, resp)
RandomArtistDone ==
    \E i \in DOMAIN pending, resp \in RandomArtistResponses : randomArtistDone(i, resp)

NextCredential ==
    \/ Resume
    \/ Loaded
    \/ writeDone
    \/ settled /\ TypeStudioName
    \/ settled /\ TypeStudioStyle
    \/ settled /\ handleSave
    \/ settled /\ SwitchView
    \/ settled /\ SaveKey
    \/ settled /\ GenerateAlone
    \/ settled /\ SongDone
    \/ settled /\ SuggestAlone
    \/ settled /\ SuggestDone
    \/ settled /\ RegenerateAlone
    \/ settled /\ RegenerateDone
    \/ settled /\ RandomArtistAlone
    \/ settled /\ RandomArtistDone

SpecCredential == InitCloud /\ [][NextCredential]_vars

----------------------------------------------------------------------------
(* local: the history, written by generations and by imported files *)

ImportHistory ==
    \E file \in HistoryFiles, confirmed \in BOOLEAN : handleHistoryFileSelect(file, confirmed)

NextHistory ==
    \/ SubmitKey
    \/ handleClearApiKey
    \/ SwitchView
    \/ TypeStudioName
    \/ TypeStudioStyle
    \/ handleSave
    \/ Delete
    \/ ImportHistory
    \/ handleGenerate
    \/ SongDone

SpecHistory == InitLocal /\ [][NextHistory]_vars

----------------------------------------------------------------------------
(* cloud, local: the creativity slider and the instruction of each request *)

InitCreativity == \E v \in {"cloud", "local"} : Started(v)

Slide == \E level \in Levels : setCreativity(level)
RegenerateText == \E field \in {"title", "lyrics"} : handleRegenerate(field)
RewriteDone ==
    \E i \in DOMAIN pending :
        regenerateDone(i, Ok([Parsed(UNDEF, UNDEF, UNDEF) EXCEPT ![pending[i].field] = "r1"]))

NextCreativity ==
    \/ Resume
    \/ Loaded
    \/ writeDone
    \/ settled /\ SubmitKey
    \/ settled /\ SaveKey
    \/ settled /\ SwitchView
    \/ settled /\ TypeStudioName
    \/ settled /\ TypeStudioStyle
    \/ settled /\ handleSave
    \/ settled /\ Slide
    \/ settled /\ handleGenerate
    \/ settled /\ SongDone
    \/ settled /\ RegenerateText
    \/ settled /\ RewriteDone

SpecCreativity == InitCreativity /\ [][NextCreativity]_vars

----------------------------------------------------------------------------
(* cloud, local: the answers of the service to a generation, well-formed    *)
(* and not                                                                  *)

InitAnswer == \E v \in {"cloud", "local"} : Started(v)

AnswerSong == \E i \in DOMAIN pending, resp \in GenerateResponses : generateDone(i, resp)

NextAnswer ==
    \/ Resume
    \/ Loaded
    \/ writeDone
    \/ settled /\ SubmitKey
    \/ settled /\ SaveKey
    \/ settled /\ SwitchView
    \/ settled /\ TypeStudioName
    \/ settled /\ TypeStudioStyle
    \/ settled /\ handleSave
    \/ settled /\ handleGenerate
    \/ settled /\ AnswerSong

SpecAnswer == InitAnswer /\ [][NextAnswer]_vars

----------------------------------------------------------------------------
(* cloud: the session - sign-in, sign-up, the load of the profile, sign-out *)

Boot == \E u \in {NULL, "u1"} : authStateChanged(u)
Login == \E u \in Uids : handleSubmitLogin(u)
SignUp == \E username \in Names : handleSubmit("u2", username)
SignUpStep == \E i \in DOMAIN io : signUpStep(i)
Google == \E name \in Names : handleGoogleSignIn("u2", name)
GoogleRead == \E i \in DOMAIN io : googleRead(i)
LoadDone == \E i \in DOMAIN io, ok \in BOOLEAN : loadDone(i, ok)

NextSession ==
    \/ Boot
    \/ Login
    \/ SignUp
    \/ SignUpStep
    \/ Google
    \/ GoogleRead
    \/ LoadDone
    \/ handleLogout
    \/ writeDone
    \/ SwitchView
    \/ TypeStudioName
    \/ TypeStudioStyle
    \/ handleSave

SpecSession == InitCloud /\ [][NextSession]_vars

----------------------------------------------------------------------------
(* local: the roster under the form and the import together, with files    *)
(* whose records have a padded name, a blank name or an empty style         *)

RosterCandidates ==
    { JObject(Str(<<"A">>), Str(<<"s">>)),
      JObject(Str(<<" ", "a">>), Str(EMPTY)),
      JObject(Str(<<" ">>), Str(<<"s">>)) }

RosterFiles == { JArray(items) : items \in SeqsUpTo(RosterCandidates, MaxFile) }

ImportRoster ==
    \E file \in RosterFiles :
        \E rnd \in RandomDraws(file) : handleFileSelect(file, TRUE, rnd)

NextRoster ==
    \/ TypeBackupName
    \/ TypeBackupStyle
    \/ handleSave
    \/ Edit
    \/ cancelClick
    \/ Delete
    \/ ImportRoster
    \/ SwitchView
    \/ SubmitKey
    \/ Tick

SpecRoster == InitLocal /\ [][NextRoster]_vars

----------------------------------------------------------------------------
(* cloud: persistence - two artists, one request at a time, and the writes  *)
(* of every change applied by the server before the user's next step        *)

TypePersistName == \E name \in {<<"A">>, <<"B">>} : setFormName(name)
SelectArtist == \E i \in DOMAIN artists : selectArtist(i)

NextPersist ==
    \/ Resume
    \/ Loaded
    \/ writeDone
    \/ settled /\ Tick
    \/ settled /\ TypePersistName
    \/ settled /\ TypeStudioStyle
    \/ settled /\ handleSave
    \/ settled /\ Delete
    \/ settled /\ SwitchView
    \/ settled /\ SaveKey
    \/ settled /\ SelectArtist
    \/ settled /\ GenerateAlone
    \/ settled /\ SongDone

SpecPersist == InitCloud /\ [][NextPersist]_vars

----------------------------------------------------------------------------
(* cloud: requests that overlap - a generation, a suggestion and the          *)
(* regenerations of two fields, answered in any order                         *)

ThemeDone == \E i \in DOMAIN pending : suggestDone(i, Ok(Parsed("th1", UNDEF, UNDEF)))

NextOverlap ==
    \/ Resume
    \/ Loaded
    \/ writeDone
    \/ settled /\ TypeStudioName
    \/ settled /\ TypeStudioStyle
    \/ settled /\ handleSave
    \/ settled /\ SwitchView
    \/ settled /\ SaveKey
    \/ settled /\ handleGenerate
    \/ settled /\ SongDone
    \/ settled /\ handleSuggestTheme
    \/ settled /\ ThemeDone
    \/ settled /\ RegenerateText
    \/ settled /\ RewriteDone

SpecOverlap == InitCloud /\ [][NextOverlap]_vars

----------------------------------------------------------------------------
(* cloud: two registered users on one browser - sign-out and sign-in while   *)
(* a generation or a suggestion is outstanding                               *)

\* the document of a user who saved one artist and a credential before
ProfileOf(u) ==
    [NewProfile EXCEPT
        !.artists = <<[id |-> IF u = "u1" THEN 2 ELSE 4,
                       name |-> IF u = "u1" THEN <<"A">> ELSE <<"b">>,
                       style |-> <<"s">>]>>,
        !.apiKey = "k",
        !.displayName = IF u = "u1" THEN "ann" ELSE "bob"]

InitShared ==
    Constructed("cloud", [u \in Uids |-> ProfileOf(u).displayName],
                         [u \in Uids |-> ProfileOf(u)])

\* the second user signs in on the browser the first one left
LoginOther == handleSubmitLogin("u2")

NextShared ==
    \/ Resume
    \/ Loaded
    \/ writeDone
    \/ settled /\ LoginOther
    \/ settled /\ handleLogout
    \/ settled /\ handleGenerate
    \/ settled /\ SongDone

SpecShared == InitShared /\ [][NextShared]_vars

----------------------------------------------------------------------------
(* cloud: the regeneration of one field of the song displayed, with answers  *)
(* of every shape, while generations go on                                   *)

Regenerate == \E field \in Fields : handleRegenerate(field)

\* the answers to a generation: a song, a song without the lyrics key, an error
RewriteSongs == StudioSongs \cup { Ok(Parsed("t1", "s1", UNDEF)) }
SongAnswered == \E i \in DOMAIN pending, resp \in RewriteSongs : generateDone(i, resp)

AnswerRewrite ==
    \E i \in DOMAIN pending :
        /\ pending[i].kind = "regenerate"
        /\ \E resp \in RegenerateResponses(pending[i].field) : regenerateDone(i, resp)

NextRewrite ==
    \/ Resume
    \/ Loaded
    \/ writeDone
    \/ settled /\ handleGenerate
    \/ settled /\ SongAnswered
    \/ settled /\ Regenerate
    \/ settled /\ AnswerRewrite

SpecRewrite == InitShared /\ [][NextRewrite]_vars

----------------------------------------------------------------------------
(* local: generations and theme suggestions for one artist that overlap,     *)
(* answered in any order, with success or with an error                      *)

ThemeAnswered == \E i \in DOMAIN pending, resp \in SuggestResponses : suggestDone(i, resp)
SongReturned == \E i \in DOMAIN pending, resp \in StudioSongs : generateDone(i, resp)

NextLatest ==
    \/ SubmitKey
    \/ SwitchView
    \/ TypeStudioName
    \/ TypeStudioStyle
    \/ handleSave
    \/ handleGenerate
    \/ handleSuggestTheme
    \/ SongReturned
    \/ ThemeAnswered

SpecLatest == InitLocal /\ [][NextLatest]_vars

----------------------------------------------------------------------------
(* cloud: the artist select while the roster is loaded again - a user with   *)
(* two artists signs out and in while the load of the first sign-in is still *)
(* outstanding                                                               *)

\* the document of a user who saved two artists and a credential before
TwoArtists ==
    [ProfileOf("u1") EXCEPT !.artists = <<[id |-> 2, name |-> <<"A">>, style |-> <<"s">>],
                                          [id |-> 4, name |-> <<"b">>, style |-> <<"s">>]>>]

InitSelect == Constructed("cloud", [u1 |-> "ann", u2 |-> "none"], [u1 |-> TwoArtists, u2 |-> NoDoc])

LoginAgain == handleSubmitLogin("u1")

NextSelect ==
    \/ Resume
    \/ Loaded
    \/ writeDone
    \/ settled /\ handleLogout
    \/ settled /\ LoginAgain
    \/ settled /\ SwitchView
    \/ settled /\ Delete
    \/ settled /\ SelectArtist

SpecSelect == InitSelect /\ [][NextSelect]_vars

----------------------------------------------------------------------------
(* Properties.  A step of a handler is recognised by lastOp', the state    *)
(* before it by the unprimed variables.                                     *)

\* the names of the roster, as the duplicate check compares them
normalized(name) == toLowerCase(trim(name))

\* a step of handleSave that creates: no artist is edited, and both fields
\* are non-empty after trimming
isCreateStep ==
    /\ lastOp'.op = "handleSave"
    /\ lastOp'.arg = NoArtist
    /\ trim(formName) # EMPTY
    /\ trim(formStyle) # EMPTY

\* C1: a create with both fields non-empty after trimming is rejected, the
\* roster unchanged, when the trimmed name equals the name of an artist of the
\* roster case-insensitively; otherwise it is accepted and appends exactly one
\* artist, which holds the trimmed name and the trimmed style.
C1_CreateRejectsDuplicates ==
    [][isCreateStep =>
        IF \E i \in DOMAIN artists :
               toLowerCase(artists[i].name) = toLowerCase(trim(formName))
        THEN /\ lastOp'.result = "rejected"
             /\ artists' = artists
        ELSE /\ lastOp'.result = "accepted"
             /\ Len(artists') = Len(artists) + 1
             /\ SubSeq(artists', 1, Len(artists)) = artists
             /\ artists'[Len(artists')].name = trim(formName)
             /\ artists'[Len(artists')].style = trim(formStyle)]_vars

\* C1 witness: a create of " a" was rejected because "A" is in the roster,
\* which an accepted create put there
C1_Witness ==
    /\ lastOp.op = "handleSave"
    /\ lastOp.arg = NoArtist
    /\ lastOp.result = "rejected"
    /\ formName = <<" ", "a">>
    /\ trim(formStyle) # EMPTY
    /\ \E i \in DOMAIN artists : artists[i].name = <<"A">>

\* C2: starting from the empty roster, after any sequence of creates, updates,
\* deletes and imports, no two artists of the roster have names that are equal
\* after trimming and lower-casing.
C2_UniqueNames ==
    \A i, j \in DOMAIN artists :
        i # j => normalized(artists[i].name) # normalized(artists[j].name)

\* a confirmed delete; lastOp'.arg is the artist X whose button was clicked
isDeleteStep ==
    /\ lastOp'.op = "handleDelete"
    /\ lastOp'.result = "confirmed"

\* C3: a confirmed delete of artist X removes X from the roster and leaves
\* every other artist as it was, removes the history entry keyed by X's id and
\* leaves every other entry as it was, and sets the form to "not editing" if
\* X was the artist being edited and leaves it alone otherwise.
C3_DeleteFrame ==
    [][isDeleteStep =>
        LET X == lastOp'.arg
            wasEdited == /\ editingArtist # NoArtist
                         /\ editingArtist.id = X.id
                         /\ editingArtist.name = X.name
        IN  /\ \E i \in DOMAIN artists :
                    artists[i] = X /\ artists' = Remove(artists, i)
            /\ HistoryValue(generationHistory', heap')
                 = DeleteKey(HistoryValue(generationHistory, heap), String(X.id))
            /\ editingArtist' = IF wasEdited THEN NoArtist ELSE editingArtist]_vars

\* a generation that succeeded: the answer parsed and the history was written
isGeneratedStep ==
    /\ lastOp'.op = "generateDone"
    /\ lastOp'.result = "stored"

\* the entry of an artist in a history, the three empty lists if there is none
entryOf(gh, hp, key) == IF key \in DOMAIN gh THEN hp[gh[key]] ELSE EmptyEntry

\* C4: after a successful generation for artist A, A's title list is the list
\* it had before with the new title appended and A's lyrics list the list it
\* had before with the new lyrics appended; if A had no entry, the entry starts
\* from three empty lists.
C4_GenerateAppends ==
    [][isGeneratedStep =>
        LET key == String(lastOp'.arg.req.artist.id)
            song == lastOp'.arg.resp.data
            before == entryOf(generationHistory, heap, key)
            after == entryOf(generationHistory', heap', key)
        IN  /\ key \in DOMAIN generationHistory'
            /\ after.titles = Append(before.titles, song.title)
            /\ after.lyrics = Append(before.lyrics, song.lyrics)
            /\ key \notin DOMAIN generationHistory => after.themes = << >>]_vars

\* C5: every key of the generation history is the id of an artist of the
\* roster, in every reachable state (a delete updates the roster and the
\* history in one step), whatever the order of deletes, history imports and
\* answers to requests.
C5_LedgerKeysLive ==
    \A key \in DOMAIN generationHistory :
        \E i \in DOMAIN artists : String(artists[i].id) = key

\* an import that went through: lastOp'.arg is the file
isImportStep ==
    /\ lastOp'.op = "handleFileSelect"
    /\ lastOp'.result = "merged"

\* the candidates of a file that the import keeps, in the order of the file
candidatesOf(file) == validArtistsOf(file.items)

\* the artists of a roster that have the name of artist a
namesakes(roster, a) ==
    { j \in DOMAIN roster : normalized(roster[j].name) = normalized(a.name) }

\* several candidates, and every one of them has the name of artist a
allMatch(valid, a) ==
    /\ Len(valid) >= 2
    /\ \A i \in DOMAIN valid : normalized(valid[i].name) = normalized(a.name)

\* C6, as stated: when the imported list holds several candidates and the names
\* of all of them match one artist of the roster, the import leaves exactly one
\* artist with that name, its style is the style of the last candidate, and
\* the import is reported as an update (at least one) with zero additions.
C6_MatchesReportedAsUpdate ==
    [][isImportStep =>
        LET valid == candidatesOf(lastOp'.arg)
        IN  \A i \in DOMAIN artists :
                allMatch(valid, artists[i]) =>
                    /\ Cardinality(namesakes(artists', artists[i])) = 1
                    /\ \A j \in namesakes(artists', artists[i]) :
                           artists'[j].style = valid[Len(valid)].style
                    /\ lastOp'.added = 0
                    /\ lastOp'.updated >= 1]_vars

\* the candidates that change the style: each is compared with the style the
\* artist holds when its turn comes, which is the style of the candidate before
styleChanges(valid, a) ==
    { i \in DOMAIN valid :
        valid[i].style # (IF i = 1 THEN a.style ELSE valid[i - 1].style) }

\* C6, amended: in that case the import leaves exactly one artist with that
\* name, its style is the style of the last candidate, zero additions are
\* reported, and the number of updates reported is the number of candidates
\* whose style differs from the style the artist holds at their turn: none if
\* every candidate repeats the style the artist has, more than one if the
\* styles alternate.
C6_MatchesMerged ==
    [][isImportStep =>
        LET valid == candidatesOf(lastOp'.arg)
        IN  \A i \in DOMAIN artists :
                allMatch(valid, artists[i]) =>
                    /\ Cardinality(namesakes(artists', artists[i])) = 1
                    /\ \A j \in namesakes(artists', artists[i]) :
                           artists'[j].style = valid[Len(valid)].style
                    /\ lastOp'.added = 0
                    /\ lastOp'.updated = Cardinality(styleChanges(valid, artists[i]))]_vars

\* C6 witness: a file of two candidates with the name of one artist of the
\* roster was merged, and neither changed the style: no update is reported
C6_Witness ==
    /\ lastOp.op = "handleFileSelect"
    /\ lastOp.result = "merged"
    /\ Len(candidatesOf(lastOp.arg)) = 2
    /\ \E i \in DOMAIN artists : allMatch(candidatesOf(lastOp.arg), artists[i])
    /\ lastOp.added = 0
    /\ lastOp.updated = 0

\* C7: an import that was confirmed, of a file whose text does not parse or
\* parses to a value that is no array, ends with the error alert and leaves
\* the roster as it was.
C7_NonArrayRejected ==
    [][(/\ lastOp'.op = "handleFileSelect"
        /\ lastOp'.result # "declined"
        /\ lastOp'.arg.kind # "array") =>
            /\ lastOp'.result = "failed"
            /\ lastOp'.alert = "Error importing file"
            /\ artists' = artists]_vars

\* C7 witness: a file holding a JSON object was refused while the roster held
\* an artist
C7_Witness ==
    /\ lastOp.op = "handleFileSelect"
    /\ lastOp.arg.kind = "object"
    /\ lastOp.result = "failed"
    /\ lastOp.alert = "Error importing file"
    /\ Len(artists) > 0

\* a confirmed import of a history file: lastOp'.arg is the file
isHistoryImportStep ==
    /\ lastOp'.op = "handleHistoryFileSelect"
    /\ lastOp'.result # "declined"

\* C8: a history import of a JSON object replaces the whole entry of every key
\* of the file (the lists are not merged), adds the keys that were not there
\* and leaves every other entry as it was; a file that holds null, an array or
\* anything that is no object ends with the error alert, the history unchanged.
C8_HistoryImportReplaces ==
    [][isHistoryImportStep =>
        LET file == lastOp'.arg
            old == HistoryValue(generationHistory, heap)
            new == HistoryValue(generationHistory', heap')
        IN  IF file.kind = "object"
            THEN /\ lastOp'.result = "merged"
                 /\ DOMAIN new = DOMAIN old \cup DOMAIN file.data
                 /\ \A k \in DOMAIN file.data : new[k] = file.data[k]
                 /\ \A k \in DOMAIN old \ DOMAIN file.data : new[k] = old[k]
            ELSE /\ lastOp'.result = "failed"
                 /\ lastOp'.alert = "Error importing history file"
                 /\ new = old]_vars

\* C8 witness: an import of one key replaced the entry that was there, and an
\* entry whose key is not in the file is still there
C8_Witness ==
    /\ lastOp.op = "handleHistoryFileSelect"
    /\ lastOp.result = "merged"
    /\ lastOp.added = 1
    /\ lastOp.updated = 1
    /\ \E k \in DOMAIN generationHistory : k \notin DOMAIN lastOp.arg.data

\* a request is made: one of the four handlers that call the service runs, with
\* an artist selected where it needs one
isRequestStep ==
    /\ lastOp'.op \in {"handleGenerate", "handleSuggestTheme", "handleRegenerate",
                       "handleGenerateRandomArtist"}
    /\ lastOp'.result # "noArtist"

instructed == { i \in DOMAIN pending : pending[i].kind \in {"generate", "regenerate"} }

\* the text of strict adherence and the text of deconstruction, as the variant
\* that runs words them
strictText(style) ==
    IF variant = "cloud"
    THEN <<"Adhere as strictly as possible to the artist's established style provided. The output should be a textbook example of their sound.">>
    ELSE <<"The musical style of the song MUST be \"Identical\" to: \"", style,
           "\". Do not deviate or add any other stylistic elements.">>

wildText(style) ==
    IF variant = "cloud"
    THEN <<"Completely deconstruct the artist's style. Generate a 'what if?' scenario. What if this artist made a song in a completely unrelated genre? Be bold, abstract, and unpredictable. The connection to the original artist should be artistic and conceptual, not literal.">>
    ELSE <<"The musical style should be a \"Wildcard\". Take the artist's core style (\"", style,
           "\") as a distant starting point and create something wildly experimental and avant-garde. The connection to the original style might be abstract or purely conceptual. This is a chance for a completely unpredictable and high-concept result.">>

\* C10: the instruction of a request is one of five texts, one for each of
\* the levels 0, 25, 50, 75 and 100: requests made at different levels hold
\* different texts, a request made at level 0 holds the text of strict
\* adherence and one made at level 100 the text of deconstruction, and a
\* generation and a regeneration made at the same level hold the same text.
C10_CreativityTexts ==
    \A i, j \in instructed :
        /\ pending[i].level \in Levels
        /\ pending[i].level = 0 => pending[i].instruction = strictText(pending[i].artist.style)
        /\ pending[i].level = 100 => pending[i].instruction = wildText(pending[i].artist.style)
        /\ pending[i].level # pending[j].level
             => pending[i].instruction # pending[j].instruction
        /\ pending[i].level = pending[j].level
             => pending[i].instruction = pending[j].instruction

\* C10 witness: a regeneration made at level 75 and a generation made at
\* level 50 are in flight together
C10_Witness ==
    \E i, j \in DOMAIN pending :
        /\ pending[i].kind = "regenerate" /\ pending[i].level = 75
        /\ pending[j].kind = "generate" /\ pending[j].level = 50

\* a text of the required shape: it parsed, and title, style and lyrics are
\* strings
wellFormed(resp) ==
    /\ resp.status = "ok"
    /\ resp.data.title # UNDEF
    /\ resp.data.style # UNDEF
    /\ resp.data.lyrics # UNDEF

\* C11: when the answer to a generation is a text that does not parse, or
\* parses to a value without title, style and lyrics, the generation fails with
\* an error and changes neither the song displayed nor the history.
C11_MalformedRejected ==
    [][(/\ lastOp'.op = "generateDone"
        /\ lastOp'.arg.req.live
        /\ lastOp'.arg.resp.status # "error"
        /\ ~wellFormed(lastOp'.arg.resp)) =>
            /\ lastOp'.result = "failed"
            /\ error' # NULL
            /\ songData' = songData
            /\ HistoryValue(generationHistory', heap')
                 = HistoryValue(generationHistory, heap)]_vars

\* the main views are rendered for a signed-in user
ready == variant = "cloud" /\ appReady /\ user # NULL /\ ~dataLoading

\* C12: in every state in which the main views are rendered for a signed-in
\* user, the load of that user's profile has brought its data: the artists,
\* the history and the credential are the ones of that user's profile document
\* (as the client reads it, the user's own writes included).
C12_ReadyHoldsProfile ==
    ready =>
        /\ artists = getDoc(user).artists
        /\ cleanData(HistoryValue(generationHistory, heap)) = getDoc(user).generationHistory
        /\ loadedKey(apiKey) = loadedKey(getDoc(user).apiKey)

\* C13 (cloud): if no write fails, then once every write that was issued has
\* completed the artists and the generationHistory of the user's document
\* equal the ones in memory; after a delete the document has no history
\* entry for the deleted artist.
persisted == docs[user]

C13_PersistedEqualsMemory ==
    (ready /\ writes = << >> /\ io = << >>) =>
        /\ persisted.artists = artists
        /\ persisted.generationHistory = cleanData(HistoryValue(generationHistory, heap))

\* C14: a create (no artist is edited) with a name or a style that is empty
\* after trimming leaves the roster and the edit form as they were and
\* leaves a non-empty form error.
isEmptyCreateStep ==
    /\ lastOp'.op = "handleSave"
    /\ editingArtist = NoArtist
    /\ (trim(formName) = EMPTY \/ trim(formStyle) = EMPTY)

C14_EmptyCreateSurfaced ==
    [][isEmptyCreateStep =>
          /\ artists' = artists
          /\ formName' = formName /\ formStyle' = formStyle
          /\ editingArtist' = editingArtist
          /\ formError' # ""]_vars

\* C15: from the empty roster, after any sequence of create, update, delete
\* and import steps every artist has a name that is non-empty and equal to
\* its trimmed form, and a non-empty style.
C15_RosterWellFormed ==
    \A i \in DOMAIN artists :
        /\ artists[i].name # EMPTY
        /\ trim(artists[i].name) = artists[i].name
        /\ artists[i].style # EMPTY

\* C16: the titles, themes and lyrics lists of an artist are append-only: in
\* every step of a session other than the deletion of the artist or a history
\* import, each list after the step has the list before it as a prefix,
\* however the answers to overlapping requests are interleaved.
isPrefix(s, t) == Len(s) <= Len(t) /\ \A i \in DOMAIN s : t[i] = s[i]

\* the steps that end or start a session, delete an artist or import a history
isReplacingStep ==
    lastOp'.op \in {"handleDelete", "handleHistoryFileSelect", "handleLogout",
                    "authStateChanged", "loadDone", "writeDone"}

C16_ListsAppendOnly ==
    [][~isReplacingStep =>
          \A key \in DOMAIN generationHistory :
              LET before == entryOf(generationHistory, heap, key)
                  after == entryOf(generationHistory', heap', key)
              IN  /\ key \in DOMAIN generationHistory'
                  /\ isPrefix(before.titles, after.titles)
                  /\ isPrefix(before.themes, after.themes)
                  /\ isPrefix(before.lyrics, after.lyrics)]_vars

\* C17: while a generate, suggest or regenerate call is outstanding the
\* control that starts the same operation is disabled, so that at most one
\* generation, one suggestion and one regeneration of each field are in
\* flight, also after a switch of views and back and with regenerations of
\* two fields.
inFlight(kind, field) ==
    Cardinality({ i \in DOMAIN pending : pending[i].kind = kind /\ pending[i].field = field })

C17_OneCallPerControl ==
    /\ inFlight("generate", "") <= 1
    /\ inFlight("suggest", "") <= 1
    /\ \A field \in Fields : inFlight("regenerate", field) <= 1

\* C18: an import reports as added the number of artists of the roster after
\* the import that were not in it before, and as updated the number of
\* artists of the roster before the import whose style after it differs
\* from their style before.
sameArtist(a, b) == normalized(a.name) = normalized(b.name)

newArtistsOf(before, after) ==
    { j \in DOMAIN after : \A i \in DOMAIN before : ~sameArtist(before[i], after[j]) }

restyledOf(before, after) ==
    { i \in DOMAIN before :
        \E j \in DOMAIN after : sameArtist(before[i], after[j]) /\ after[j].style # before[i].style }

C18_CountsMatchRoster ==
    [][isImportStep =>
          /\ lastOp'.added = Cardinality(newArtistsOf(artists, artists'))
          /\ lastOp'.updated = Cardinality(restyledOf(artists, artists'))]_vars

\* C19: an update of the artist being edited excludes that artist from the
\* duplicate check: its own name in any letter case is accepted, the name of
\* another artist is rejected and the roster stays as it was; an accepted
\* update changes the name and the style of that artist only, which keeps its
\* id and its position, and every other artist is unchanged.
isUpdateStep ==
    /\ lastOp'.op = "handleSave"
    /\ editingArtist # NoArtist
    /\ trim(formName) # EMPTY
    /\ trim(formStyle) # EMPTY

\* the position of the artist being edited: where the Edit button was clicked
editedAt == CHOOSE i \in DOMAIN artists : artists[i] = editingArtist

takenByOther ==
    \E i \in DOMAIN artists \ {editedAt} :
        normalized(artists[i].name) = normalized(formName)

C19_UpdateExcludesSelf ==
    [][isUpdateStep =>
          IF takenByOther
          THEN lastOp'.result = "rejected" /\ artists' = artists
          ELSE /\ lastOp'.result = "accepted"
               /\ artists' = [artists EXCEPT ![editedAt] =
                                 [id |-> editingArtist.id,
                                  name |-> trim(formName),
                                  style |-> trim(formStyle)]]]_vars

\* C20: the document that a first sign-in creates (email sign-up, federated
\* sign-in or the first profile load) has empty artists, an empty history and
\* an empty credential, and it never overwrites a document that already holds
\* data, however the write of the sign-up handler and the profile load are
\* interleaved.
isCreationStep ==
    /\ lastOp'.op = "writeDone"
    /\ ~lastOp'.arg.merge

holdsData(doc) ==
    doc.exists /\ (doc.artists # << >> \/ doc.generationHistory # << >> \/ doc.apiKey # "")

C20_CreationKeepsData ==
    [][isCreationStep =>
          LET uid == lastOp'.arg.uid
          IN  /\ docs'[uid].exists
              /\ holdsData(docs[uid]) =>
                     /\ docs'[uid].artists = docs[uid].artists
                     /\ docs'[uid].generationHistory = docs[uid].generationHistory
                     /\ docs'[uid].apiKey = docs[uid].apiKey]_vars

\* C21 (cloud): whenever nobody is signed in, the artists and the history in
\* memory are empty and the credential is null, and they stay so until a user
\* signs in, also when a generation or a suggestion that was started before
\* the sign-out is answered after it.
signedOut == variant = "cloud" /\ appReady /\ user = NULL

C21_SignedOutHoldsNothing ==
    signedOut => artists = << >> /\ generationHistory = << >> /\ apiKey = NULL

\* C26 (cloud): an answer to a generation, a suggestion or a regeneration that
\* arrives after the user who started it signed out, or after another user
\* signed in, changes nothing of the history in memory and queues no write
\* to the document of the user who is signed in then.
\* The session of the other user: that user is signed in and the profile load
\* has ended, so that nothing replaces what the answer leaves in memory.
isLateStep ==
    /\ lastOp'.op \in {"generateDone", "suggestDone", "regenerateDone"}
    /\ lastOp'.result = "stored"
    /\ ready
    /\ lastOp'.arg.req.user # user

C26_LateAnswerStaysOut ==
    [][isLateStep =>
          /\ HistoryValue(generationHistory', heap') = HistoryValue(generationHistory, heap)
          /\ \A i \in DOMAIN writes' : writes'[i].uid = user => i \in DOMAIN writes]_vars

\* C22 (cloud): no two profile documents hold the same displayName, however
\* email sign-ups (the query for the username, then the account and the
\* document) and federated sign-ins are interleaved.
C22_NamesUnique ==
    \A u, v \in Uids :
        (u # v /\ docs[u].exists /\ docs[v].exists /\ docs[u].displayName # NoName)
            => docs[u].displayName # docs[v].displayName

\* C23 (cloud): a regeneration of one field that succeeded changes that field
\* of the song displayed and leaves the other two as they were, whatever keys
\* the answer holds; it appends to the history for title and lyrics only.
isRegeneratedStep ==
    /\ lastOp'.op = "regenerateDone"
    /\ lastOp'.result = "stored"

C23_RegenerateOneField ==
    [][isRegeneratedStep =>
          LET req == lastOp'.arg.req
              key == String(req.artist.id)
              base == entryOf(req.history, heap, key)
              after == entryOf(generationHistory', heap', key)
          IN  /\ \A f \in Fields \ {req.field} : songData'[f] = songData[f]
              /\ after.themes = base.themes
              /\ req.field # "title" => after.titles = base.titles
              /\ req.field # "lyrics" => after.lyrics = base.lyrics]_vars

\* C28 (cloud): the answer to a regeneration is applied to the song it was
\* requested for only: if a generation replaced the song displayed while the
\* regeneration was outstanding, the late answer changes no field of the new
\* song.
GeneratedStyles == { resp.data.style : resp \in { r \in StudioSongs : r.status = "ok" } }

\* the style of the song displayed and the style of the song of the request
\* come from two different answers to a generation
isReplacedSong(req) ==
    /\ req.song.style \in GeneratedStyles
    /\ songData.style \in GeneratedStyles
    /\ songData.style # req.song.style

C28_LateRewriteDropped ==
    [][(lastOp'.op = "regenerateDone" /\ isReplacedSong(lastOp'.arg.req)) =>
          songData' = songData]_vars


\* a step of handleSuggestTheme, handleGenerate or handleRegenerate that got
\* past its checks: the flag is raised and the request is built
isStartedStep ==
    /\ lastOp'.op \in {"handleSuggestTheme", "handleGenerate", "handleRegenerate"}
    /\ lastOp'.result # "noArtist"

\* the in-flight flag of a request is down after the step
flagCleared(req) ==
    CASE req.kind = "generate" -> ~isLoading'
      [] req.kind = "suggest"  -> ~isSuggesting'
      [] OTHER                 -> isRegenerating' = NULL

\* a step in which the call of a request made by the view now shown ends
isEndedStep ==
    /\ lastOp'.op \in {"suggestDone", "generateDone", "regenerateDone"}
    /\ lastOp'.arg.req.live

\* C24: a generate, suggest-theme or regenerate that has started makes
\* exactly one call of the service (or is refused at once for want of a
\* credential, with the flag cleared and a message set); when the call ends
\* the in-flight flag of the operation is cleared, and when it was rejected
\* a message is set and the history is as before.
C24_OneCallFlagCleared ==
    [][/\ isStartedStep =>
            \/ Len(pending') = Len(pending) + 1
            \/ lastOp'.result = "noCredential" /\ error' # NULL
                   /\ ~isLoading' /\ ~isSuggesting' /\ isRegenerating' = NULL
       /\ isEndedStep =>
            /\ flagCleared(lastOp'.arg.req)
            /\ lastOp'.arg.resp.status = "error" =>
                   /\ error' # NULL
                   /\ HistoryValue(generationHistory', heap') = HistoryValue(generationHistory, heap)]_vars


\* C25: in the local variant the artists of the roster have pairwise
\* distinct ids, after any sequence of creations and merge imports.
C25_IdsDistinct ==
    variant = "local" =>
        \A i, j \in DOMAIN artists : i # j => artists[i].id # artists[j].id


\* the entry of a key of the history, empty when the key is not there
entryAt(gh, hp, key) == IF key \in DOMAIN gh THEN hp[gh[key]] ELSE EmptyEntry

\* a step of the local variant in which a successful answer is recorded
isRecordedStep ==
    /\ variant = "local"
    /\ lastOp'.op \in {"generateDone", "suggestDone"}
    /\ lastOp'.result = "stored"

\* C27: in the local variant a successful answer is appended to the ledger
\* as it is when the answer arrives: the entry of the artist is the entry of
\* that moment with the new title and lyrics (generation) or the new theme
\* (suggestion) at the end, every other entry is as before, and no other step
\* of generating and suggesting changes the ledger; so once all overlapping
\* calls have resolved every item of a successful call is in the ledger.
C27_AppendsToLatest ==
    [][IF isRecordedStep
       THEN LET req == lastOp'.arg.req
                data == lastOp'.arg.resp.data
                key == String(req.artist.id)
                before == entryAt(generationHistory, heap, key)
                after == entryAt(generationHistory', heap', key)
            IN  /\ key \in DOMAIN generationHistory'
                /\ IF req.kind = "generate"
                   THEN /\ after.titles = Append(before.titles, data.title)
                        /\ after.lyrics = Append(before.lyrics, data.lyrics)
                        /\ after.themes = before.themes
                   ELSE /\ after.themes = Append(before.themes, data.title)
                        /\ after.titles = before.titles
                        /\ after.lyrics = before.lyrics
                /\ \A k \in DOMAIN generationHistory \ {key} :
                       /\ k \in DOMAIN generationHistory'
                       /\ entryAt(generationHistory', heap', k) = entryAt(generationHistory, heap, k)
       ELSE variant = "local" =>
                HistoryValue(generationHistory', heap') = HistoryValue(generationHistory, heap)]_vars

\* a theme arrives while a generation for the same artist is outstanding and
\* the ledger already holds a title for that artist
C27_Witness ==
    /\ variant = "local"
    /\ lastOp.op = "suggestDone" /\ lastOp.result = "stored"
    /\ \E i \in DOMAIN pending :
           /\ pending[i].kind = "generate"
           /\ pending[i].artist.id = lastOp.arg.req.artist.id
    /\ LET key == String(lastOp.arg.req.artist.id)
       IN  /\ key \in DOMAIN generationHistory
           /\ Len(heap[generationHistory[key]].titles) > 0
           /\ Len(heap[generationHistory[key]].themes) > 0


\* the names of the candidates that are in no key of `seen`, each once, in
\* the order of the file
RECURSIVE firstNew(_, _)
firstNew(valid, seen) ==
    IF valid = << >> THEN << >>
    ELSE IF toLowerCase(Head(valid).name) \in seen
         THEN firstNew(Tail(valid), seen)
         ELSE <<Head(valid).name>> \o firstNew(Tail(valid), seen \cup {toLowerCase(Head(valid).name)})

\* C29: a merge import keeps every artist of the roster at its position with
\* its id and its name (only the style may change), and the artists it adds
\* come after them, in the order of the file.
C29_ImportKeepsRoster ==
    [][isImportStep =>
          LET n == Len(artists)
              names == firstNew(candidatesOf(lastOp'.arg),
                                { toLowerCase(artists[i].name) : i \in DOMAIN artists })
          IN  /\ Len(artists') = n + Len(names)
              /\ \A i \in 1..n :
                     /\ i \in DOMAIN artists'
                     /\ artists'[i].id = artists[i].id
                     /\ artists'[i].name = artists[i].name
              /\ \A j \in DOMAIN names :
                     n + j \in DOMAIN artists' /\ artists'[n + j].name = names[j]]_vars


\* selected names an artist of roster
isLiveSelection(roster, selected) ==
    \E i \in DOMAIN roster : String(roster[i].id) = selected

\* C30: while the create-song view is shown (its effect has run on the
\* roster of the state) selectedArtistId is the string id of an artist of the
\* roster when there is one and the empty string when there is none; and a
\* step that is not a choice in the artist select, with the view shown before
\* and after it, keeps a selection that names an artist of the roster it
\* leaves; a choice in the artist select stays as chosen when the effect has
\* run on it.
C30_SelectionFollowsRoster ==
    [][/\ CreateShown' =>
            IF Len(artists') > 0
            THEN isLiveSelection(artists', selectedArtistId')
            ELSE selectedArtistId' = ""
       /\ (/\ CreateShown /\ CreateShown'
           /\ lastOp'.op # "selectArtist"
           /\ isLiveSelection(artists', selectedArtistId)) =>
               selectedArtistId' = selectedArtistId
       /\ lastOp'.op = "selectArtist" => selectedArtistId' = String(lastOp'.arg.id)]_vars


\* the roster was loaded while the view was shown with the second artist
\* selected, and the second artist is still selected (a view that is mounted
\* starts with the first)
C30_Witness ==
    /\ CreateShown
    /\ lastOp.op = "loadDone" /\ lastOp.result = "loaded"
    /\ Len(artists) = 2
    /\ artists[1].id # artists[2].id
    /\ selectedArtistId = String(artists[2].id)

====
